---- MODULE Spec2Model ----
(***************************************************************************)
(* A model of the JavaScript project manifest extractor (LLM-dist):        *)
(*   src/src/modules/parser.js          parseFile and its helpers          *)
(*   src/src/modules/manifestBuilder.js buildManifest, optimizeForLLM,     *)
(*                                      optimizeManifest                   *)
(*   src/src/index.js                   main, handleError                  *)
(*                                                                         *)
(* JavaScript values are modelled as tagged records [k, v]: strings,       *)
(* numbers, booleans, null, undefined, arrays (a sequence of values) and   *)
(* objects (a sequence of <<key, value>> pairs in insertion order, which   *)
(* is the order Object.entries walks them in).                             *)
(***************************************************************************)
EXTENDS Integers, Sequences, FiniteSets, TLC

VARIABLES
    pc,             \* main(): the position of the run
    config,         \* main(): the parsed command line
    filePaths,      \* main(): what findSourceFiles returned
    idx,            \* main(): the position of the for-loop over filePaths
    content,        \* main(): the content read for the current file
    processedFiles, \* main(): the {filePath, metadata} records pushed so far
    manifest,       \* main(): what buildManifest returned
    finalManifest,  \* main(): the manifest after the optimizations applied so far
    outputFile,     \* what writeManifest has written
    exitCode,       \* process.exitCode
    err,            \* the class of the error handleError was given
    reads,          \* the files whose read has begun, in order
    arg,            \* a direct call of an exported function: its argument
    ret,            \* a direct call: what it returned
    call,           \* a direct call: which function, and how far it is
    mem,            \* a direct call: the heap before and after it
    isFlowTypeAnnotation \* typeof t.isFlowTypeAnnotation in the installed
                    \* @babel/types

vars == <<pc, config, filePaths, idx, content, processedFiles, manifest,
          finalManifest, outputFile, exitCode, err, reads, arg, ret, call,
          mem, isFlowTypeAnnotation>>

mainVars == <<pc, config, filePaths, idx, content, processedFiles, manifest,
              finalManifest, outputFile, exitCode, err, reads>>

callVars == <<arg, ret, call, mem>>

libVars == <<isFlowTypeAnnotation>>

\* parser.js calls t.isFlowTypeAnnotation, which is not among the validators
\* the documentation of @babel/types lists; the library is not part of the
\* repository, so the installed one either has it or has not.
InstalledLibraries == {"function", "undefined"}

-----------------------------------------------------------------------------
(* Bounds of the model.                                                    *)

MaxFiles == 2
MaxItems == 2
MaxResults == 2
MaxStmts == 2
MaxParams == 2

-----------------------------------------------------------------------------
(* JavaScript values.                                                      *)

Str(s) == [k |-> "str", v |-> s]
Num(n) == [k |-> "num", v |-> n]
Bool(b) == [k |-> "bool", v |-> b]
Null == [k |-> "null", v |-> 0]
Undef == [k |-> "undef", v |-> 0]
Arr(q) == [k |-> "arr", v |-> q]
Obj(q) == [k |-> "obj", v |-> q]

IsStr(x) == x.k = "str"
IsArr(x) == x.k = "arr"
IsObj(x) == x.k = "obj"

\* JavaScript's truthiness: what `x || y`, `x ? a : b` and `if (x)` test.
Truthy(x) ==
    CASE x.k = "undef" -> FALSE
      [] x.k = "null" -> FALSE
      [] x.k = "bool" -> x.v
      [] x.k = "num" -> x.v # 0
      [] x.k = "str" -> x.v # ""
      [] OTHER -> TRUE

Keys(o) == [i \in 1..Len(o.v) |-> o.v[i][1]]
KeySet(o) == {o.v[i][1] : i \in 1..Len(o.v)}
Has(o, key) == IsObj(o) /\ key \in KeySet(o)

\* o.key: the value of the property, undefined when the object has none.
Get(o, key) ==
    IF Has(o, key)
    THEN o.v[CHOOSE i \in 1..Len(o.v) : o.v[i][1] = key][2]
    ELSE Undef

\* o.key = val: an existing property keeps its place, a new one is appended.
Put(o, key, val) ==
    IF Has(o, key)
    THEN Obj([i \in 1..Len(o.v) |->
                 IF o.v[i][1] = key THEN <<key, val>> ELSE o.v[i]])
    ELSE Obj(Append(o.v, <<key, val>>))

\* arr.length
Length(a) == Len(a.v)

\* a || b
OrElse(a, b) == IF Truthy(a) THEN a ELSE b

\* Whether x is the string s (x === 's').
IsString(x, s) == IsStr(x) /\ x.v = s

RECURSIVE MapWith(_, _, _)
\* q.map(x => G(c, x)), for a G that takes something more than the element.
MapWith(G(_, _), c, q) ==
    IF Len(q) = 0 THEN <<>> ELSE <<G(c, Head(q))>> \o MapWith(G, c, Tail(q))

RECURSIVE MapSeq(_, _)
\* arr.map(F) on the elements of a sequence.
MapSeq(F(_), q) ==
    IF Len(q) = 0 THEN <<>> ELSE <<F(Head(q))>> \o MapSeq(F, Tail(q))

-----------------------------------------------------------------------------
(* node:path, on POSIX.  A path string is split at "/" into its segments   *)
(* (Split is the inverse of rendering, found among the paths of the        *)
(* model), and the results are rendered back to strings.                   *)

RECURSIVE JoinSegs(_)
JoinSegs(segs) ==
    IF Len(segs) = 0 THEN ""
    ELSE IF Len(segs) = 1 THEN segs[1]
    ELSE segs[1] \o "/" \o JoinSegs(Tail(segs))

\* The string of an absolute path with these segments.
AbsPath(segs) == "/" \o JoinSegs(segs)

\* The paths of the model, as segments.
PathSegs ==
    {<<>>, <<"proj">>, <<"proj", "src">>, <<"other">>,
     <<"proj", "src", "a.js">>, <<"proj", "b.ts">>,
     <<"proj", "src", "lib", "c.ts">>, <<"other", "d.js">>,
     <<"proj", "src", "e.ts">>, <<"proj", "f.js">>,
     <<"proj", "lib", "g.js">>, <<"proj", "bad.js">>,
     <<"proj", "src", "h.tsx">>, <<"missing">>}

\* Path strings without their extension.
Stems ==
    {"/proj/src/a", "/proj/b", "/proj/src/lib/c", "/other/d", "/proj/src/e",
     "/proj/f", "/proj/lib/g", "/proj/bad", "/proj/src/h"}

\* str.endsWith(suffix), for the suffix an extension.
EndsWith(str, suffix) == \E stem \in Stems : str = stem \o suffix

\* The segments of an absolute path string.
Split(p) == CHOOSE segs \in PathSegs : AbsPath(segs) = p

RECURSIVE CommonPrefixLen(_, _)
CommonPrefixLen(a, b) ==
    IF Len(a) = 0 \/ Len(b) = 0 \/ a[1] # b[1] THEN 0
    ELSE 1 + CommonPrefixLen(Tail(a), Tail(b))

\* path.relative(from, to) of two absolute paths.
path_relative(from, to) ==
    LET f == Split(from)
        t == Split(to)
        n == CommonPrefixLen(f, t)
        ups == [i \in 1..(Len(f) - n) |-> ".."]
        rest == SubSeq(t, n + 1, Len(t))
    IN JoinSegs(ups \o rest)

\* path.basename(p)
path_basename(p) ==
    LET s == Split(p) IN IF Len(s) = 0 THEN "" ELSE s[Len(s)]


-----------------------------------------------------------------------------
(* manifestBuilder.js: buildManifest.                                      *)

\* A result of a call: the value returned, or the class of the error thrown.
Returned(v) == [threw |-> "none", val |-> v]
Threw(e) == [threw |-> e, val |-> Undef]

\* A builder that keeps the path of the file as it was given.
FileManifestKeepsFilePath(fileData, rootPath) ==
    LET filePath == Get(fileData, "filePath").v
        metadata == Get(fileData, "metadata")
    IN Obj(<< <<"path", Str(filePath)>>,
              <<"filename", Str(path_basename(filePath))>>,
              <<"symbols", OrElse(Get(metadata, "symbols"), Arr(<<>>))>>,
              <<"dependencies", OrElse(Get(metadata, "dependencies"), Arr(<<>>))>>,
              <<"hasDefaultExport",
                OrElse(Get(metadata, "hasDefaultExport"), Bool(FALSE))>> >>)

\* The fileManifest object built for one file result (lines 37-49).
FileManifest(fileData, rootPath) ==
    LET filePath == Get(fileData, "filePath").v
        metadata == Get(fileData, "metadata")
    IN Obj(<< <<"path", Str(path_relative(rootPath, filePath))>>,
              <<"filename", Str(path_basename(filePath))>>,
              <<"symbols", OrElse(Get(metadata, "symbols"), Arr(<<>>))>>,
              <<"dependencies", OrElse(Get(metadata, "dependencies"), Arr(<<>>))>>,
              <<"hasDefaultExport",
                OrElse(Get(metadata, "hasDefaultExport"), Bool(FALSE))>> >>)

\* A counting that takes every symbol that is no function, class or export
\* for a constant.
TypeStatOfDefaultsToConstants(symbol) ==
    LET t == Get(symbol, "type")
    IN IF IsString(t, "fn") THEN "functions"
       ELSE IF IsString(t, "class") THEN "classes"
       ELSE IF IsString(t, "export") THEN "exports"
       ELSE "constants"

\* The typeStats counter a symbol is counted in (lines 57-65), "" for none.
TypeStatOf(symbol) ==
    LET t == Get(symbol, "type")
    IN IF IsString(t, "fn") THEN "functions"
       ELSE IF IsString(t, "class") THEN "classes"
       ELSE IF IsString(t, "const") THEN "constants"
       ELSE IF IsString(t, "export") THEN "exports"
       ELSE ""

RECURSIVE CountSymbols(_, _)
\* The inner forEach over one file's symbols (lines 56-66) on the counters.
CountSymbols(symbols, typeStats) ==
    IF Len(symbols) = 0 THEN typeStats
    ELSE LET c == TypeStatOf(Head(symbols))
             next == IF c = "" THEN typeStats
                     ELSE [typeStats EXCEPT ![c] = @ + 1]
         IN CountSymbols(Tail(symbols), next)

\* A builder that assigns the running totals instead of adding to them.
UpdateStatsAssigns(stats, fileManifest) ==
    [totalFiles |-> stats.totalFiles,
     totalSymbols |-> Length(Get(fileManifest, "symbols")),
     totalDependencies |-> Length(Get(fileManifest, "dependencies")),
     typeStats |-> CountSymbols(Get(fileManifest, "symbols").v, stats.typeStats)]

\* The stats after one more file (lines 52-66).
UpdateStats(stats, fileManifest) ==
    [totalFiles |-> stats.totalFiles,
     totalSymbols |-> stats.totalSymbols + Length(Get(fileManifest, "symbols")),
     totalDependencies |->
         stats.totalDependencies + Length(Get(fileManifest, "dependencies")),
     typeStats |-> CountSymbols(Get(fileManifest, "symbols").v, stats.typeStats)]

RECURSIVE ProcessEachFile(_, _, _)
\* parsedFiles.forEach (lines 36-69) on <<files, stats>>.
ProcessEachFile(parsedFiles, rootPath, acc) ==
    IF Len(parsedFiles) = 0 THEN acc
    ELSE LET fm == FileManifest(Head(parsedFiles), rootPath)
         IN ProcessEachFile(Tail(parsedFiles), rootPath,
                [files |-> Append(acc.files, fm),
                 stats |-> UpdateStats(acc.stats, fm)])

StatsObj(stats) ==
    Obj(<< <<"totalFiles", Num(stats.totalFiles)>>,
           <<"totalSymbols", Num(stats.totalSymbols)>>,
           <<"totalDependencies", Num(stats.totalDependencies)>>,
           <<"typeStats",
             Obj(<< <<"functions", Num(stats.typeStats.functions)>>,
                    <<"classes", Num(stats.typeStats.classes)>>,
                    <<"constants", Num(stats.typeStats.constants)>>,
                    <<"exports", Num(stats.typeStats.exports)>> >>)>> >>)

\* A guard that forgets the length test.
NoFilesOnlyArrayTest(parsedFiles) == ~IsArr(parsedFiles)

\* !Array.isArray(parsedFiles) || parsedFiles.length === 0 (line 12)
NoFiles(parsedFiles) == ~IsArr(parsedFiles) \/ Length(parsedFiles) = 0

\* buildManifest(parsedFiles, rootPath), called when the clock reads `now`.
buildManifest(parsedFiles, rootPath, now) ==
    IF NoFiles(parsedFiles)
    THEN Threw("UserInputError")
    ELSE LET init == [files |-> <<>>,
                      stats |-> [totalFiles |-> Length(parsedFiles),
                                 totalSymbols |-> 0,
                                 totalDependencies |-> 0,
                                 typeStats |-> [functions |-> 0, classes |-> 0,
                                                constants |-> 0, exports |-> 0]]]
             done == ProcessEachFile(parsedFiles.v, rootPath, init)
         IN Returned(Obj(<< <<"version", Str("1.0.0")>>,
                            <<"generated", Str(now)>>,
                            <<"rootPath", Str(rootPath)>>,
                            <<"files", Arr(done.files)>>,
                            <<"stats", StatsObj(done.stats)>> >>))

-----------------------------------------------------------------------------
(* manifestBuilder.js: optimizeForLLM.                                     *)

NameType(o) == Obj(<< <<"name", Get(o, "name")>>, <<"type", Get(o, "type")>> >>)

\* simplifyParam(param)
simplifyParam(param) ==
    IF ~Truthy(param) THEN Null
    ELSE LET s0 == NameType(param)
             s1 == IF Truthy(Get(param, "hasDefault"))
                   THEN Put(s0, "hasDefault", Bool(TRUE)) ELSE s0
             s2 == IF IsString(Get(param, "name"), "objectPattern")
                      /\ Truthy(Get(param, "properties"))
                   THEN Put(s1, "properties",
                            Arr(MapSeq(NameType, Get(param, "properties").v)))
                   ELSE s1
             s3 == IF IsString(Get(param, "name"), "arrayPattern")
                      /\ Truthy(Get(param, "elements"))
                   THEN Put(s2, "elements",
                            Arr(MapSeq(NameType, Get(param, "elements").v)))
                   ELSE s2
         IN s3

\* symbol.params ? symbol.params.map(simplifyParam) : []
SimplifyParams(params) ==
    IF Truthy(params) THEN Arr(MapSeq(simplifyParam, params.v)) ELSE Arr(<<>>)

\* A field mapping that also keeps the field's location.
SimplifyFieldKeepsLoc(field) ==
    Obj(<< <<"name", Get(field, "name")>>,
           <<"type", Get(field, "type")>>,
           <<"static", Get(field, "static")>>,
           <<"loc", Get(field, "loc")>> >>)

\* The object a class field is mapped to (lines 114-118).
SimplifyField(field) ==
    Obj(<< <<"name", Get(field, "name")>>,
           <<"type", Get(field, "type")>>,
           <<"static", Get(field, "static")>> >>)

\* The object a class method is mapped to (lines 120-126).
SimplifyMethod(method) ==
    Obj(<< <<"name", Get(method, "name")>>,
           <<"kind", Get(method, "kind")>>,
           <<"static", Get(method, "static")>>,
           <<"params", SimplifyParams(Get(method, "params"))>>,
           <<"returnType", Get(method, "returnType")>> >>)

\* simplifySymbol(symbol)
simplifySymbol(symbol) ==
    LET simplified == NameType(symbol)
        t == Get(symbol, "type")
    IN IF IsString(t, "fn")
       THEN Put(Put(simplified, "params", SimplifyParams(Get(symbol, "params"))),
                "returnType", Get(symbol, "returnType"))
       ELSE IF IsString(t, "class")
       THEN LET fields == Get(symbol, "fields")
                methods == Get(symbol, "methods")
                c1 == Put(simplified, "fields",
                          IF Truthy(fields)
                          THEN Arr(MapSeq(SimplifyField, fields.v)) ELSE Arr(<<>>))
                c2 == Put(c1, "methods",
                          IF Truthy(methods)
                          THEN Arr(MapSeq(SimplifyMethod, methods.v)) ELSE Arr(<<>>))
            IN IF Truthy(Get(symbol, "extends"))
               THEN Put(c2, "extends", Get(symbol, "extends")) ELSE c2
       ELSE IF IsString(t, "export")
       THEN Put(simplified, "localName", Get(symbol, "localName"))
       ELSE simplified

\* A file mapping that takes the file's name for its path.
SimplifyFileByName(file) ==
    Obj(<< <<"path", Get(file, "filename")>>,
           <<"symbols", Arr(MapSeq(simplifySymbol, Get(file, "symbols").v))>>,
           <<"dependencies", Get(file, "dependencies")>>,
           <<"hasDefaultExport", Get(file, "hasDefaultExport")>> >>)

\* The object a file is mapped to (lines 85-90).
SimplifyFile(file) ==
    Obj(<< <<"path", Get(file, "path")>>,
           <<"symbols", Arr(MapSeq(simplifySymbol, Get(file, "symbols").v))>>,
           <<"dependencies", Get(file, "dependencies")>>,
           <<"hasDefaultExport", Get(file, "hasDefaultExport")>> >>)

\* optimizeForLLM(manifest)
optimizeForLLM(m) ==
    Obj(<< <<"version", Get(m, "version")>>,
           <<"files", Arr(MapSeq(SimplifyFile, Get(m, "files").v))>> >>)

-----------------------------------------------------------------------------
(* manifestBuilder.js: optimizeManifest.  The closure's stringTable and    *)
(* stringMap are threaded through the calls as `st`.                       *)

EmptyTable == [stringTable |-> <<>>, stringMap |-> <<>>]

\* stringMap.has(str), with stringMap a sequence of <<string, index>> entries.
MapHas(stringMap, s) == \E i \in 1..Len(stringMap) : stringMap[i][1] = s

\* stringMap.get(str)
MapGet(stringMap, s) ==
    stringMap[CHOOSE i \in 1..Len(stringMap) : stringMap[i][1] = s][2]

\* { $ref: index }
Ref(index) == Obj(<< <<"$ref", Num(index)>> >>)

\* An interner that pushes every string it is given, seen before or not.
internStringNoLookup(str, st) ==
    IF ~IsStr(str) THEN [val |-> str, st |-> st]
    ELSE [val |-> Ref(Len(st.stringTable)),
          st |-> [stringTable |-> Append(st.stringTable, str.v),
                  stringMap |-> Append(st.stringMap, <<str.v, Len(st.stringTable)>>)]]

\* An interner that takes the index after the push: one past the string.
internStringIndexAfterPush(str, st) ==
    IF ~IsStr(str) THEN [val |-> str, st |-> st]
    ELSE LET st1 == IF ~MapHas(st.stringMap, str.v)
                    THEN [stringTable |-> Append(st.stringTable, str.v),
                          stringMap |-> Append(st.stringMap,
                                               <<str.v, Len(st.stringTable) + 1>>)]
                    ELSE st
         IN [val |-> Ref(MapGet(st1.stringMap, str.v)), st |-> st1]

\* internString(str)
internString(str, st) ==
    IF ~IsStr(str) THEN [val |-> str, st |-> st]
    ELSE LET st1 == IF ~MapHas(st.stringMap, str.v)
                    THEN [stringTable |-> Append(st.stringTable, str.v),
                          stringMap |-> Append(st.stringMap,
                                               <<str.v, Len(st.stringTable)>>)]
                    ELSE st
         IN [val |-> Ref(MapGet(st1.stringMap, str.v)), st |-> st1]

\* The fields processObject copies without looking at them (line 210).
IsVerbatimKey(key) == key \in {"version", "generated", "rootPath"}

RECURSIVE processObject(_, _)
RECURSIVE ProcessItems(_, _)
RECURSIVE ProcessEntries(_, _, _)

\* obj.map(item => processObject(item)) (line 203)
ProcessItems(items, st) ==
    IF Len(items) = 0 THEN [val |-> <<>>, st |-> st]
    ELSE LET h == processObject(Head(items), st)
             t == ProcessItems(Tail(items), h.st)
         IN [val |-> <<h.val>> \o t.val, st |-> t.st]

\* The loop over Object.entries(obj) (lines 208-217), into `result`.
ProcessEntries(entries, result, st) ==
    IF Len(entries) = 0 THEN [val |-> result, st |-> st]
    ELSE LET key == Head(entries)[1]
             value == Head(entries)[2]
             r == IF IsVerbatimKey(key) THEN [val |-> value, st |-> st]
                  ELSE IF IsStr(value) THEN internString(value, st)
                  ELSE processObject(value, st)
         IN ProcessEntries(Tail(entries), Put(result, key, r.val), r.st)

\* processObject(obj)
processObject(obj, st) ==
    IF IsArr(obj)
    THEN LET r == ProcessItems(obj.v, st) IN [val |-> Arr(r.val), st |-> r.st]
    ELSE IF IsObj(obj)
    THEN ProcessEntries(obj.v, Obj(<<>>), st)
    ELSE [val |-> obj, st |-> st]

\* { ...optimized }: the own properties of an object; none for null, undefined,
\* a number or a boolean.  (The model never spreads an array or a string.)
Spread(x) == IF IsObj(x) THEN x ELSE Obj(<<>>)

\* optimizeManifest(manifest)
optimizeManifest(m) ==
    LET r == processObject(m, EmptyTable)
        table == Arr([i \in 1..Len(r.st.stringTable) |-> Str(r.st.stringTable[i])])
    IN Put(Spread(r.val), "stringTable", table)


-----------------------------------------------------------------------------
(* optimizeForLLM and optimizeManifest once more, on objects with          *)
(* identity.  The heap is a sequence of cells; an object or an array is    *)
(* the cell at its address, and what a cell holds are primitives and       *)
(* At(address).  Every object literal and every map allocates a cell,      *)
(* every assignment to a property and every push writes to one.            *)

At(address) == [k |-> "at", v |-> address]
IsAt(x) == x.k = "at"

\* The statements of the code in sequence: `first` is evaluated, then `rest`
\* on what it gave.
Then(first, rest(_)) == CHOOSE r \in {rest(x) : x \in {first}} : TRUE

\* A new cell: the heap with it, and the value that refers to it.
Alloc(heap, cell) == [heap |-> Append(heap, cell), val |-> At(Len(heap) + 1)]

\* object.key = val
SetField(heap, object, key, val) ==
    [heap EXCEPT ![object.v] = Put(@, key, val)]

\* array.push(val)
PushItem(heap, array, val) ==
    [heap EXCEPT ![array.v] = Arr(Append(@.v, val))]

\* object.key
Field(heap, object, key) ==
    IF IsAt(object) THEN Get(heap[object.v], key) ELSE Undef

\* Whether x is an array, an object.
IsArrayAt(heap, x) == IsAt(x) /\ IsArr(heap[x.v])
IsObjectAt(heap, x) == IsAt(x) /\ IsObj(heap[x.v])

RECURSIVE MapItems(_, _, _, _)
\* G on each of the items in turn, the heap passed along; `done` are the
\* results so far.
MapItems(G(_, _), heap, done, items) ==
    IF Len(items) = 0 THEN [heap |-> heap, val |-> done]
    ELSE Then(G(heap, Head(items)), LAMBDA h :
              MapItems(G, h.heap, Append(done, h.val), Tail(items)))

\* array.map(G): a new array of what G returns.
MapArray(G(_, _), heap, array) ==
    Then(MapItems(G, heap, <<>>, heap[array.v].v), LAMBDA r :
         Alloc(r.heap, Arr(r.val)))

\* list ? list.map(G) : []
MapOrEmpty(G(_, _), heap, list) ==
    IF Truthy(list) THEN MapArray(G, heap, list) ELSE Alloc(heap, Arr(<<>>))

RECURSIVE Load(_, _)
RECURSIVE LoadEntry(_, _)
\* The value x built on the heap, each object and array of it a cell of its own.
Load(heap, x) ==
    IF IsArr(x)
    THEN Then(MapItems(Load, heap, <<>>, x.v), LAMBDA r :
              Alloc(r.heap, Arr(r.val)))
    ELSE IF IsObj(x)
    THEN Then(MapItems(LoadEntry, heap, <<>>, x.v), LAMBDA r :
              Alloc(r.heap, Obj(r.val)))
    ELSE [heap |-> heap, val |-> x]
LoadEntry(heap, entry) ==
    Then(Load(heap, entry[2]), LAMBDA r :
         [heap |-> r.heap, val |-> <<entry[1], r.val>>])

RECURSIVE Read(_, _)
\* The value that x is on the heap, read all the way down.
Read(heap, x) ==
    IF IsArrayAt(heap, x)
    THEN Arr([i \in 1..Len(heap[x.v].v) |-> Read(heap, heap[x.v].v[i])])
    ELSE IF IsObjectAt(heap, x)
    THEN Obj([i \in 1..Len(heap[x.v].v) |->
                 <<heap[x.v].v[i][1], Read(heap, heap[x.v].v[i][2])>>])
    ELSE x

\* { name: o.name, type: o.type }
NameTypeOnHeap(heap, o) ==
    Alloc(heap, Obj(<< <<"name", Field(heap, o, "name")>>,
                       <<"type", Field(heap, o, "type")>> >>))

\* simplifyParam(param)
simplifyParamOnHeap(heap, param) ==
    IF ~Truthy(param) THEN [heap |-> heap, val |-> Null]
    ELSE Then(NameTypeOnHeap(heap, param), LAMBDA simplified :
         Then(IF Truthy(Field(heap, param, "hasDefault"))
              THEN SetField(simplified.heap, simplified.val,
                            "hasDefault", Bool(TRUE))
              ELSE simplified.heap, LAMBDA h1 :
         Then(IF IsString(Field(heap, param, "name"), "objectPattern")
                 /\ Truthy(Field(heap, param, "properties"))
              THEN Then(MapArray(NameTypeOnHeap, h1,
                                 Field(heap, param, "properties")), LAMBDA m :
                        SetField(m.heap, simplified.val, "properties", m.val))
              ELSE h1, LAMBDA h2 :
         Then(IF IsString(Field(heap, param, "name"), "arrayPattern")
                 /\ Truthy(Field(heap, param, "elements"))
              THEN Then(MapArray(NameTypeOnHeap, h2,
                                 Field(heap, param, "elements")), LAMBDA m :
                        SetField(m.heap, simplified.val, "elements", m.val))
              ELSE h2, LAMBDA h3 :
         [heap |-> h3, val |-> simplified.val]))))

\* params ? params.map(simplifyParam) : []
SimplifyParamsOnHeap(heap, params) ==
    MapOrEmpty(simplifyParamOnHeap, heap, params)

\* field => ({ name, type, static }) (lines 114-118)
SimplifyFieldOnHeap(heap, field) ==
    Alloc(heap, Obj(<< <<"name", Field(heap, field, "name")>>,
                       <<"type", Field(heap, field, "type")>>,
                       <<"static", Field(heap, field, "static")>> >>))

\* method => ({ name, kind, static, params, returnType }) (lines 120-126)
SimplifyMethodOnHeap(heap, method) ==
    Then(SimplifyParamsOnHeap(heap, Field(heap, method, "params")), LAMBDA p :
         Alloc(p.heap,
               Obj(<< <<"name", Field(heap, method, "name")>>,
                      <<"kind", Field(heap, method, "kind")>>,
                      <<"static", Field(heap, method, "static")>>,
                      <<"params", p.val>>,
                      <<"returnType", Field(heap, method, "returnType")>> >>)))

\* The branch of simplifySymbol for a class (lines 113-130), writing into
\* `simplified`.
SimplifyClassOnHeap(heap, symbol, simplified) ==
    Then(MapOrEmpty(SimplifyFieldOnHeap, heap, Field(heap, symbol, "fields")),
         LAMBDA f :
    Then(SetField(f.heap, simplified, "fields", f.val), LAMBDA h1 :
    Then(MapOrEmpty(SimplifyMethodOnHeap, h1, Field(heap, symbol, "methods")),
         LAMBDA m :
    Then(SetField(m.heap, simplified, "methods", m.val), LAMBDA h2 :
         IF Truthy(Field(heap, symbol, "extends"))
         THEN SetField(h2, simplified, "extends", Field(heap, symbol, "extends"))
         ELSE h2))))

\* simplifySymbol(symbol)
simplifySymbolOnHeap(heap, symbol) ==
    Then(NameTypeOnHeap(heap, symbol), LAMBDA simplified :
    Then(IF IsString(Field(heap, symbol, "type"), "fn")
         THEN Then(SimplifyParamsOnHeap(simplified.heap,
                                        Field(heap, symbol, "params")), LAMBDA p :
                   SetField(SetField(p.heap, simplified.val, "params", p.val),
                            simplified.val, "returnType",
                            Field(heap, symbol, "returnType")))
         ELSE IF IsString(Field(heap, symbol, "type"), "class")
         THEN SimplifyClassOnHeap(simplified.heap, symbol, simplified.val)
         ELSE IF IsString(Field(heap, symbol, "type"), "export")
         THEN SetField(simplified.heap, simplified.val, "localName",
                       Field(heap, symbol, "localName"))
         ELSE simplified.heap, LAMBDA h :
    [heap |-> h, val |-> simplified.val]))

\* A file mapping that works in place: it puts the simplified symbols into the
\* file it was given, takes its filename away and returns that file.
SimplifyFileInPlace(heap, file) ==
    Then(MapArray(simplifySymbolOnHeap, heap, Field(heap, file, "symbols")),
         LAMBDA s :
    Then(SetField(s.heap, file, "symbols", s.val), LAMBDA h1 :
    [heap |-> [h1 EXCEPT ![file.v] =
                  Obj(SelectSeq(@.v, LAMBDA entry : entry[1] # "filename"))],
     val |-> file]))

\* file => ({ path, symbols, dependencies, hasDefaultExport }) (lines 83-91):
\* the dependencies are the file's own array, not a copy.
SimplifyFileOnHeap(heap, file) ==
    Then(MapArray(simplifySymbolOnHeap, heap, Field(heap, file, "symbols")),
         LAMBDA s :
    Alloc(s.heap,
          Obj(<< <<"path", Field(heap, file, "path")>>,
                 <<"symbols", s.val>>,
                 <<"dependencies", Field(heap, file, "dependencies")>>,
                 <<"hasDefaultExport", Field(heap, file, "hasDefaultExport")>> >>)))

\* optimizeForLLM(manifest)
optimizeForLLMOnHeap(heap, m) ==
    Then(MapArray(SimplifyFileOnHeap, heap, Field(heap, m, "files")), LAMBDA f :
         Alloc(f.heap, Obj(<< <<"version", Field(heap, m, "version")>>,
                              <<"files", f.val>> >>)))

\* internString(str): st is the heap, the closure's stringTable (an array on
\* the heap) and its stringMap.
internStringOnHeap(str, st) ==
    IF ~IsStr(str) THEN [val |-> str, st |-> st]
    ELSE Then(IF ~MapHas(st.stringMap, str.v)
              THEN [heap |-> PushItem(st.heap, st.stringTable, str),
                    stringTable |-> st.stringTable,
                    stringMap |->
                        Append(st.stringMap,
                               <<str.v, Len(st.heap[st.stringTable.v].v)>>)]
              ELSE st, LAMBDA st1 :
         Then(Alloc(st1.heap, Ref(MapGet(st1.stringMap, str.v))), LAMBDA r :
         [val |-> r.val, st |-> [st1 EXCEPT !.heap = r.heap]]))

RECURSIVE processObjectOnHeap(_, _)
RECURSIVE ProcessItemsOnHeap(_, _, _)
RECURSIVE ProcessEntriesOnHeap(_, _, _)

\* obj.map(item => processObject(item)) (line 203)
ProcessItemsOnHeap(items, done, st) ==
    IF Len(items) = 0 THEN [val |-> done, st |-> st]
    ELSE Then(processObjectOnHeap(Head(items), st), LAMBDA h :
              ProcessItemsOnHeap(Tail(items), Append(done, h.val), h.st))

\* The loop over Object.entries(obj) (lines 208-217), writing into `result`.
ProcessEntriesOnHeap(entries, result, st) ==
    IF Len(entries) = 0 THEN [val |-> result, st |-> st]
    ELSE Then(IF IsVerbatimKey(Head(entries)[1])
              THEN [val |-> Head(entries)[2], st |-> st]
              ELSE IF IsStr(Head(entries)[2])
              THEN internStringOnHeap(Head(entries)[2], st)
              ELSE processObjectOnHeap(Head(entries)[2], st), LAMBDA r :
         ProcessEntriesOnHeap(Tail(entries), result,
             [r.st EXCEPT !.heap = SetField(@, result, Head(entries)[1], r.val)]))

\* processObject(obj)
processObjectOnHeap(obj, st) ==
    IF IsArrayAt(st.heap, obj)
    THEN Then(ProcessItemsOnHeap(st.heap[obj.v].v, <<>>, st), LAMBDA r :
         Then(Alloc(r.st.heap, Arr(r.val)), LAMBDA a :
         [val |-> a.val, st |-> [r.st EXCEPT !.heap = a.heap]]))
    ELSE IF IsObjectAt(st.heap, obj)
    THEN Then(Alloc(st.heap, Obj(<<>>)), LAMBDA result :
         ProcessEntriesOnHeap(st.heap[obj.v].v, result.val,
                              [st EXCEPT !.heap = result.heap]))
    ELSE [val |-> obj, st |-> st]

\* optimizeManifest(manifest)
optimizeManifestOnHeap(heap, m) ==
    Then(Alloc(heap, Arr(<<>>)), LAMBDA stringTable :
    Then(processObjectOnHeap(m, [heap |-> stringTable.heap,
                                 stringTable |-> stringTable.val,
                                 stringMap |-> <<>>]), LAMBDA r :
    Alloc(r.st.heap,
          Put(IF IsObjectAt(r.st.heap, r.val) THEN r.st.heap[r.val.v] ELSE Obj(<<>>),
              "stringTable", stringTable.val))))

-----------------------------------------------------------------------------
(* The syntax tree @babel/parser returns, as records with the node's type  *)
(* and its fields.  A missing child is Nil.                                *)

Nil == [type |-> "null"]
IsNil(n) == n.type = "null"
Is(n, t) == n.type = t

\* node.field, Nil when the node has no such field.
F(n, field) == IF field \in DOMAIN n THEN n[field] ELSE Nil

\* node.loc: a span on one line.
Span(line, c1, c2) ==
    [type |-> "SourceLocation",
     start |-> [line |-> line, column |-> c1],
     end |-> [line |-> line, column |-> c2]]

identifier(name) == [type |-> "Identifier", name |-> name, typeAnnotation |-> Nil]
typedIdentifier(name, ann) ==
    [type |-> "Identifier", name |-> name, typeAnnotation |-> ann]
stringLiteral(value) == [type |-> "StringLiteral", value |-> value]
numericLiteral(value) == [type |-> "NumericLiteral", value |-> value]

\* TypeScript types, and the TSTypeAnnotation node that wraps the type of a
\* parameter, a return or a field.
tsKeyword(t) == [type |-> t]
tsArrayType(elementType) == [type |-> "TSArrayType", elementType |-> elementType]
tsTypeReference(name, params) ==
    [type |-> "TSTypeReference",
     typeName |-> identifier(name),
     typeParameters |->
         IF Len(params) = 0 THEN Nil
         ELSE [type |-> "TSTypeParameterInstantiation", params |-> params]]
tsQualifiedReference(left, right) ==
    [type |-> "TSTypeReference",
     typeName |-> [type |-> "TSQualifiedName", left |-> identifier(left),
                   right |-> identifier(right)],
     typeParameters |-> Nil]
tsUnionType(types) == [type |-> "TSUnionType", types |-> types]
tsIntersectionType(types) == [type |-> "TSIntersectionType", types |-> types]
tsFunctionType == [type |-> "TSFunctionType"]
tsTypeAnnotation(t) == [type |-> "TSTypeAnnotation", typeAnnotation |-> t]

\* Parameters.
assignmentPattern(left, right) ==
    [type |-> "AssignmentPattern", left |-> left, right |-> right]
objectProperty(key, value) ==
    [type |-> "ObjectProperty", key |-> key, value |-> value]
restElement(argument, ann) ==
    [type |-> "RestElement", argument |-> argument, typeAnnotation |-> ann]
objectPattern(properties) ==
    [type |-> "ObjectPattern", properties |-> properties, typeAnnotation |-> Nil]
arrayPattern(elements) ==
    [type |-> "ArrayPattern", elements |-> elements, typeAnnotation |-> Nil]
tsParameterProperty(parameter) ==
    [type |-> "TSParameterProperty", parameter |-> parameter]

\* Expressions and statements.
callExpression(callee, arguments) ==
    [type |-> "CallExpression", callee |-> callee, arguments |-> arguments]
binaryExpression(left, right) ==
    [type |-> "BinaryExpression", left |-> left, right |-> right]
returnStatement(argument) == [type |-> "ReturnStatement", argument |-> argument]
expressionStatement(expression) ==
    [type |-> "ExpressionStatement", expression |-> expression]
blockStatement(body) == [type |-> "BlockStatement", body |-> body]
arrowFunctionExpression(params, returnType, body) ==
    [type |-> "ArrowFunctionExpression", params |-> params,
     returnType |-> returnType, body |-> body]
functionExpression(params, returnType, body) ==
    [type |-> "FunctionExpression", id |-> Nil, params |-> params,
     returnType |-> returnType, body |-> body]
functionDeclaration(id, params, returnType, body, loc) ==
    [type |-> "FunctionDeclaration", id |-> id, params |-> params,
     returnType |-> returnType, body |-> blockStatement(body), loc |-> loc]
variableDeclarator(id, init, loc) ==
    [type |-> "VariableDeclarator", id |-> id, init |-> init, loc |-> loc]
variableDeclaration(declarations) ==
    [type |-> "VariableDeclaration", declarations |-> declarations]
classMethod(key, static, kind, params, returnType, body, loc) ==
    [type |-> "ClassMethod", key |-> key, static |-> static, kind |-> kind,
     params |-> params, returnType |-> returnType, body |-> blockStatement(body),
     loc |-> loc]
classProperty(key, static, ann, value, loc) ==
    [type |-> "ClassProperty", key |-> key, static |-> static,
     typeAnnotation |-> ann, value |-> value, loc |-> loc]
classPrivateProperty(name, static, value, loc) ==
    [type |-> "ClassPrivateProperty",
     key |-> [type |-> "PrivateName", id |-> identifier(name)],
     static |-> static, typeAnnotation |-> Nil, value |-> value, loc |-> loc]
classDeclaration(id, superClass, members, loc) ==
    [type |-> "ClassDeclaration", id |-> id, superClass |-> superClass,
     body |-> [type |-> "ClassBody", body |-> members], loc |-> loc]
exportSpecifier(local, exported, loc) ==
    [type |-> "ExportSpecifier", local |-> identifier(local),
     exported |-> identifier(exported), loc |-> loc]
exportNamespaceSpecifier(exported, loc) ==
    [type |-> "ExportNamespaceSpecifier", exported |-> identifier(exported),
     loc |-> loc]
exportNamedDeclaration(declaration, specifiers, source) ==
    [type |-> "ExportNamedDeclaration", declaration |-> declaration,
     specifiers |-> specifiers, source |-> source]
exportDefaultDeclaration(declaration) ==
    [type |-> "ExportDefaultDeclaration", declaration |-> declaration]
importDefaultSpecifier(local) ==
    [type |-> "ImportDefaultSpecifier", local |-> identifier(local)]
importNamespaceSpecifier(local) ==
    [type |-> "ImportNamespaceSpecifier", local |-> identifier(local)]
importSpecifier(local, imported) ==
    [type |-> "ImportSpecifier", local |-> identifier(local),
     imported |-> identifier(imported)]
importDeclaration(specifiers, source) ==
    [type |-> "ImportDeclaration", specifiers |-> specifiers,
     source |-> stringLiteral(source)]
program(body) == [type |-> "Program", body |-> body]

\* The children traverse visits, in the order of the node type's visitor keys
\* (@babel/types VISITOR_KEYS); missing children are skipped by VisitAll.
Kids(n) ==
    CASE Is(n, "Program") -> n.body
      [] Is(n, "BlockStatement") -> n.body
      [] Is(n, "ClassBody") -> n.body
      [] Is(n, "ImportDeclaration") -> n.specifiers \o <<n.source>>
      [] Is(n, "ImportSpecifier") -> <<n.imported, n.local>>
      [] Is(n, "ImportDefaultSpecifier") -> <<n.local>>
      [] Is(n, "ImportNamespaceSpecifier") -> <<n.local>>
      [] Is(n, "ExportNamedDeclaration") ->
            <<n.declaration>> \o n.specifiers \o <<n.source>>
      [] Is(n, "ExportSpecifier") -> <<n.local, n.exported>>
      [] Is(n, "ExportNamespaceSpecifier") -> <<n.exported>>
      [] Is(n, "ExportDefaultDeclaration") -> <<n.declaration>>
      [] Is(n, "FunctionDeclaration") ->
            <<n.id>> \o n.params \o <<n.returnType, n.body>>
      [] Is(n, "FunctionExpression") ->
            <<n.id>> \o n.params \o <<n.returnType, n.body>>
      [] Is(n, "ArrowFunctionExpression") ->
            n.params \o <<n.returnType, n.body>>
      [] Is(n, "VariableDeclaration") -> n.declarations
      [] Is(n, "VariableDeclarator") -> <<n.id, n.init>>
      [] Is(n, "ClassDeclaration") -> <<n.id, n.superClass, n.body>>
      [] Is(n, "ClassMethod") ->
            <<n.key>> \o n.params \o <<n.returnType, n.body>>
      [] Is(n, "ClassProperty") -> <<n.key, n.typeAnnotation, n.value>>
      [] Is(n, "ClassPrivateProperty") -> <<n.key, n.typeAnnotation, n.value>>
      [] Is(n, "PrivateName") -> <<n.id>>
      [] Is(n, "CallExpression") -> <<n.callee>> \o n.arguments
      [] Is(n, "BinaryExpression") -> <<n.left, n.right>>
      [] Is(n, "ReturnStatement") -> <<n.argument>>
      [] Is(n, "ExpressionStatement") -> <<n.expression>>
      [] Is(n, "AssignmentPattern") -> <<n.left, n.right>>
      [] Is(n, "ObjectPattern") -> n.properties \o <<n.typeAnnotation>>
      [] Is(n, "ObjectProperty") -> <<n.key, n.value>>
      [] Is(n, "ArrayPattern") -> n.elements \o <<n.typeAnnotation>>
      [] Is(n, "RestElement") -> <<n.argument, n.typeAnnotation>>
      [] Is(n, "TSParameterProperty") -> <<n.parameter>>
      [] Is(n, "Identifier") -> <<n.typeAnnotation>>
      [] Is(n, "TSTypeAnnotation") -> <<n.typeAnnotation>>
      [] Is(n, "TypeAnnotation") -> <<n.typeAnnotation>>
      [] Is(n, "TSArrayType") -> <<n.elementType>>
      [] Is(n, "TSTypeReference") -> <<n.typeName, n.typeParameters>>
      [] Is(n, "TSQualifiedName") -> <<n.left, n.right>>
      [] Is(n, "TSTypeParameterInstantiation") -> n.params
      [] Is(n, "TSUnionType") -> n.types
      [] Is(n, "TSIntersectionType") -> n.types
      [] OTHER -> <<>>


-----------------------------------------------------------------------------
(* parser.js: the helpers of parseFile.                                    *)

RECURSIVE JoinWith(_, _)
\* strings.join(sep)
JoinWith(strings, sep) ==
    IF Len(strings) = 0 THEN ""
    ELSE IF Len(strings) = 1 THEN strings[1]
    ELSE strings[1] \o sep \o JoinWith(Tail(strings), sep)

\* extractLocation(loc)
extractLocation(loc) ==
    IF IsNil(loc) THEN Null
    ELSE Obj(<< <<"start", Obj(<< <<"line", Num(loc.start.line)>>,
                                  <<"column", Num(loc.start.column)>> >>)>>,
                <<"end", Obj(<< <<"line", Num(loc.end.line)>>,
                                <<"column", Num(loc.end.column)>> >>)>> >>)

\* A call that ends with a TypeError instead of a value.
Raised == [threw |-> "TypeError", val |-> Undef]

\* A value that was never built: the expression for it raised a TypeError.
Thrown == [k |-> "throw", v |-> "TypeError"]
HasThrown(md) == md.k = "throw"

\* The value a call is used for where it stands in an expression.
Value(outcome) ==
    Then(outcome, LAMBDA r : IF r.threw = "none" THEN r.val ELSE Thrown)

\* `${val}`: the text of a string, or of undefined.
TemplateText(val) == IF IsStr(val) THEN val.v ELSE "undefined"

\* The text join() gives an element: nothing for undefined.
JoinText(val) == IF IsStr(val) THEN val.v ELSE ""

\* identifier.name, undefined when the node has none.
NameOf(id) == IF "name" \in DOMAIN id THEN Str(id.name) ELSE Undef

RECURSIVE getTSTypeName(_)
RECURSIVE TSTypeNames(_, _)
\* tsTypes.map(getTSTypeName): the texts of what it returned so far in
\* `done`, or the TypeError of the first call that raised.
TSTypeNames(tsTypes, done) ==
    IF Len(tsTypes) = 0 THEN Returned(done)
    ELSE LET r == getTSTypeName(Head(tsTypes))
         IN IF r.threw # "none" THEN r
            ELSE TSTypeNames(Tail(tsTypes), Append(done, JoinText(r.val)))

\* node[list].map(getTSTypeName).join(sep); a node without the list makes
\* .map raise.
JoinedTypeNames(node, list, sep) ==
    IF list \notin DOMAIN node THEN Raised
    ELSE LET names == TSTypeNames(node[list], <<>>)
         IN IF names.threw # "none" THEN names
            ELSE Returned(Str(JoinWith(names.val, sep)))

\* getTSTypeName(tsType)
getTSTypeName(tsType) ==
    IF IsNil(tsType) THEN Returned(Str("any"))
    ELSE IF Is(tsType, "TSStringKeyword") THEN Returned(Str("string"))
    ELSE IF Is(tsType, "TSNumberKeyword") THEN Returned(Str("number"))
    ELSE IF Is(tsType, "TSBooleanKeyword") THEN Returned(Str("boolean"))
    ELSE IF Is(tsType, "TSAnyKeyword") THEN Returned(Str("any"))
    ELSE IF Is(tsType, "TSVoidKeyword") THEN Returned(Str("void"))
    ELSE IF Is(tsType, "TSNullKeyword") THEN Returned(Str("null"))
    ELSE IF Is(tsType, "TSUndefinedKeyword") THEN Returned(Str("undefined"))
    ELSE IF Is(tsType, "TSNeverKeyword") THEN Returned(Str("never"))
    ELSE IF Is(tsType, "TSUnknownKeyword") THEN Returned(Str("unknown"))
    ELSE IF Is(tsType, "TSArrayType")
    THEN LET element == getTSTypeName(F(tsType, "elementType"))
         IN IF element.threw # "none" THEN element
            ELSE Returned(Str(TemplateText(element.val) \o "[]"))
    ELSE IF /\ Is(tsType, "TSTypeReference")
            /\ Is(F(tsType, "typeName"), "Identifier")
    THEN LET name == NameOf(tsType.typeName)
         IN IF ~IsNil(F(tsType, "typeParameters"))
            THEN LET params == JoinedTypeNames(tsType.typeParameters,
                                               "params", ", ")
                 IN IF params.threw # "none" THEN params
                    ELSE Returned(Str(TemplateText(name) \o "<"
                                      \o params.val.v \o ">"))
            ELSE Returned(name)
    ELSE IF Is(tsType, "TSUnionType")
    THEN JoinedTypeNames(tsType, "types", " | ")
    ELSE IF Is(tsType, "TSIntersectionType")
    THEN JoinedTypeNames(tsType, "types", " & ")
    ELSE Returned(Str("any"))

\* extractTypeAnnotation(typeAnnotation).  flowCheck is typeof
\* t.isFlowTypeAnnotation, of the @babel/types the module imports: the call
\* at line 259 raises when the library has no such function.
extractTypeAnnotation(flowCheck, typeAnnotation) ==
    IF IsNil(typeAnnotation) THEN Returned(Str("any"))
    ELSE LET inner == F(typeAnnotation, "typeAnnotation")
             annotation == IF ~IsNil(inner) THEN inner ELSE typeAnnotation
         IN IF Is(annotation, "TSTypeAnnotation")
            THEN getTSTypeName(F(annotation, "typeAnnotation"))
            ELSE IF flowCheck = "undefined" THEN Raised
            ELSE Returned(Str("any"))

\* The entry of an object pattern's property (lines 206-214).
PatternProperty(flowCheck, prop) ==
    IF Is(prop, "ObjectProperty")
    THEN Obj(<< <<"name", Str(IF Is(prop.key, "Identifier")
                              THEN prop.key.name ELSE "computed")>>,
                <<"type", Value(extractTypeAnnotation(flowCheck,
                                  F(prop.value, "typeAnnotation")))>> >>)
    ELSE Obj(<< <<"name", Str("rest")>> >>)

RECURSIVE PatternElements(_, _)
\* param.elements.map(...).filter(Boolean) (lines 221-229)
PatternElements(flowCheck, elements) ==
    IF Len(elements) = 0 THEN <<>>
    ELSE LET element == Head(elements)
             rest == PatternElements(flowCheck, Tail(elements))
         IN IF ~IsNil(element) /\ Is(element, "Identifier")
            THEN <<Obj(<< <<"name", Str(element.name)>>,
                          <<"type", Value(extractTypeAnnotation(flowCheck,
                                  element.typeAnnotation))>> >>)>>
                 \o rest
            ELSE rest

\* extractParamInfo(param)
extractParamInfo(flowCheck, param) ==
    IF Is(param, "Identifier")
    THEN Obj(<< <<"name", Str(param.name)>>,
                <<"type", Value(extractTypeAnnotation(flowCheck,
                                  param.typeAnnotation))>> >>)
    ELSE IF Is(param, "AssignmentPattern")
    THEN Obj(<< <<"name", Str(IF Is(param.left, "Identifier")
                              THEN param.left.name ELSE "destructured")>>,
                <<"hasDefault", Bool(TRUE)>>,
                <<"type", Value(extractTypeAnnotation(flowCheck,
                                  F(param.left, "typeAnnotation")))>> >>)
    ELSE IF Is(param, "ObjectPattern")
    THEN Obj(<< <<"name", Str("objectPattern")>>,
                <<"properties", Arr(MapWith(PatternProperty, flowCheck,
                                          param.properties))>> >>)
    ELSE IF Is(param, "ArrayPattern")
    THEN Obj(<< <<"name", Str("arrayPattern")>>,
                <<"elements", Arr(PatternElements(flowCheck, param.elements))>> >>)
    ELSE IF Is(param, "RestElement")
    THEN Obj(<< <<"name", Str(IF Is(param.argument, "Identifier")
                              THEN "..." \o param.argument.name ELSE "...rest")>>,
                <<"type", Value(extractTypeAnnotation(flowCheck,
                                  param.typeAnnotation))>> >>)
    ELSE Obj(<< <<"name", Str("unknown")>> >>)

\* params.map(extractParamInfo)
ParamInfos(flowCheck, params) ==
    Arr(MapWith(extractParamInfo, flowCheck, params))


-----------------------------------------------------------------------------
(* parser.js: parseFile.  The visitors are applied to the metadata `md`;   *)
(* a visitor that throws turns it into Thrown, which traverse propagates.  *)

RECURSIVE HasRaised(_)
\* Building the value x raised: one of the calls in its expression did.
HasRaised(x) ==
    \/ HasThrown(x)
    \/ IsArr(x) /\ \E i \in 1..Len(x.v) : HasRaised(x.v[i])
    \/ IsObj(x) /\ \E i \in 1..Len(x.v) : HasRaised(x.v[i][2])

\* metadata[list].push(item); nothing is pushed when building the item raised.
Push(md, list, item) ==
    Then(<<md, item>>, LAMBDA p :
         IF HasThrown(p[1]) \/ HasRaised(p[2]) THEN Thrown
         ELSE Put(p[1], list, Arr(Append(Get(p[1], list).v, p[2]))))

\* An entry that takes the local name for the imported name.
SpecifierEntryForgetsRename(spec) ==
    IF Is(spec, "ImportDefaultSpecifier")
    THEN Obj(<< <<"type", Str("default")>>, <<"local", Str(spec.local.name)>> >>)
    ELSE IF Is(spec, "ImportNamespaceSpecifier")
    THEN Obj(<< <<"type", Str("namespace")>>, <<"local", Str(spec.local.name)>> >>)
    ELSE Obj(<< <<"type", Str("named")>>,
                <<"local", Str(spec.local.name)>>,
                <<"imported", Str(spec.local.name)>> >>)

\* The entry of an import specifier (lines 45-57).
SpecifierEntry(spec) ==
    IF Is(spec, "ImportDefaultSpecifier")
    THEN Obj(<< <<"type", Str("default")>>, <<"local", Str(spec.local.name)>> >>)
    ELSE IF Is(spec, "ImportNamespaceSpecifier")
    THEN Obj(<< <<"type", Str("namespace")>>, <<"local", Str(spec.local.name)>> >>)
    ELSE Obj(<< <<"type", Str("named")>>,
                <<"local", Str(spec.local.name)>>,
                <<"imported", Str(IF ~IsNil(F(spec, "imported"))
                                  THEN spec.imported.name
                                  ELSE spec.local.name)>> >>)

\* The ImportDeclaration visitor.
ImportDeclaration(node, md) ==
    Push(md, "dependencies",
         Obj(<< <<"type", Str("import")>>,
                <<"source", Str(node.source.value)>>,
                <<"specifiers", Arr(MapSeq(SpecifierEntry, node.specifiers))>> >>))

\* The CallExpression visitor.
CallExpression(node, md) ==
    IF /\ Is(node.callee, "Identifier")
       /\ node.callee.name = "require"
       /\ Len(node.arguments) = 1
       /\ Is(node.arguments[1], "StringLiteral")
    THEN Push(md, "dependencies",
              Obj(<< <<"type", Str("require")>>,
                     <<"source", Str(node.arguments[1].value)>> >>))
    ELSE md

\* The symbol pushed for a function (lines 79-85 and 93-99).
FunctionSymbol(flowCheck, name, fn, loc) ==
    Obj(<< <<"name", Str(name)>>,
           <<"type", Str("fn")>>,
           <<"params", ParamInfos(flowCheck, fn.params)>>,
           <<"returnType",
             Value(extractTypeAnnotation(flowCheck, fn.returnType))>>,
           <<"loc", extractLocation(loc)>> >>)

\* The FunctionDeclaration visitor.
FunctionDeclaration(flowCheck, node, md) ==
    IF ~IsNil(node.id)
    THEN Push(md, "symbols",
              FunctionSymbol(flowCheck, node.id.name, node, node.loc))
    ELSE md

IsFunctionInit(init) ==
    Is(init, "ArrowFunctionExpression") \/ Is(init, "FunctionExpression")

\* A visitor that records no constant for a binding to a call.
VariableDeclaratorSkipsCalls(flowCheck, node, md) ==
    IF ~IsNil(node.id) /\ Is(node.id, "Identifier") /\ ~IsNil(node.init)
    THEN IF IsFunctionInit(node.init)
         THEN Push(md, "symbols",
                   FunctionSymbol(flowCheck, node.id.name, node.init, node.loc))
         ELSE IF Is(node.init, "CallExpression") THEN md
         ELSE Push(md, "symbols",
                   Obj(<< <<"name", Str(node.id.name)>>,
                          <<"type", Str("const")>>,
                          <<"loc", extractLocation(node.loc)>> >>))
    ELSE md

\* The VariableDeclarator visitor.
VariableDeclarator(flowCheck, node, md) ==
    IF ~IsNil(node.id) /\ Is(node.id, "Identifier") /\ ~IsNil(node.init)
    THEN IF IsFunctionInit(node.init)
         THEN Push(md, "symbols",
                   FunctionSymbol(flowCheck, node.id.name, node.init, node.loc))
         ELSE Push(md, "symbols",
                   Obj(<< <<"name", Str(node.id.name)>>,
                          <<"type", Str("const")>>,
                          <<"loc", extractLocation(node.loc)>> >>))
    ELSE md

\* The name recorded for a class member (lines 130-131 and 140-141).
MemberName(key) ==
    IF Is(key, "Identifier") THEN key.name
    ELSE IF Is(key, "StringLiteral") THEN key.value
    ELSE "computed"

\* The entry pushed to classMetadata.methods (lines 129-137).
MethodEntry(flowCheck, member) ==
    Obj(<< <<"name", Str(MemberName(member.key))>>,
           <<"static", Bool(member.static)>>,
           <<"kind", Str(member.kind)>>,
           <<"params", ParamInfos(flowCheck, member.params)>>,
           <<"returnType",
             Value(extractTypeAnnotation(flowCheck, member.returnType))>>,
           <<"loc", extractLocation(member.loc)>> >>)

\* The entry pushed to classMetadata.fields (lines 139-145).
FieldEntry(flowCheck, member) ==
    Obj(<< <<"name", Str(MemberName(member.key))>>,
           <<"static", Bool(member.static)>>,
           <<"type",
             Value(extractTypeAnnotation(flowCheck, member.typeAnnotation))>>,
           <<"loc", extractLocation(member.loc)>> >>)

RECURSIVE ClassMembers(_, _, _)
\* path.node.body.body.forEach (lines 127-147) on classMetadata.
ClassMembers(flowCheck, members, classMetadata) ==
    IF Len(members) = 0 THEN classMetadata
    ELSE LET member == Head(members)
             next == IF Is(member, "ClassMethod")
                     THEN Push(classMetadata, "methods", MethodEntry(flowCheck, member))
                     ELSE IF Is(member, "ClassProperty")
                     THEN Push(classMetadata, "fields", FieldEntry(flowCheck, member))
                     ELSE classMetadata
         IN ClassMembers(flowCheck, Tail(members), next)

\* The ClassDeclaration visitor.
ClassDeclaration(flowCheck, node, md) ==
    IF ~IsNil(node.id)
    THEN LET c0 == Obj(<< <<"name", Str(node.id.name)>>,
                          <<"type", Str("class")>>,
                          <<"fields", Arr(<<>>)>>,
                          <<"methods", Arr(<<>>)>>,
                          <<"loc", extractLocation(node.loc)>> >>)
             c1 == IF ~IsNil(node.superClass) /\ Is(node.superClass, "Identifier")
                   THEN Put(c0, "extends", Str(node.superClass.name))
                   ELSE c0
         IN Push(md, "symbols", ClassMembers(flowCheck, node.body.body, c1))
    ELSE md

RECURSIVE ExportSpecifiers(_, _)
\* path.node.specifiers.forEach (lines 160-167); a specifier without a local
\* (export * as ns from 'm') makes specifier.local.name throw.
ExportSpecifiers(specifiers, md) ==
    IF Len(specifiers) = 0 THEN md
    ELSE LET specifier == Head(specifiers)
         IN IF IsNil(F(specifier, "local")) THEN Thrown
            ELSE ExportSpecifiers(Tail(specifiers),
                     Push(md, "symbols",
                          Obj(<< <<"name", Str(specifier.exported.name)>>,
                                 <<"localName", Str(specifier.local.name)>>,
                                 <<"type", Str("export")>>,
                                 <<"loc", extractLocation(specifier.loc)>> >>)))

\* A visitor that also records an export symbol for a wrapped declaration.
ExportNamedDeclarationCountsTwice(node, md) ==
    IF ~IsNil(node.declaration)
    THEN Push(md, "symbols",
              Obj(<< <<"name", Str("declaration")>>, <<"type", Str("export")>> >>))
    ELSE ExportSpecifiers(node.specifiers, md)

\* The ExportNamedDeclaration visitor.
ExportNamedDeclaration(node, md) ==
    IF ~IsNil(node.declaration) THEN md
    ELSE ExportSpecifiers(node.specifiers, md)

\* A visitor that leaves the flag alone.
ExportDefaultDeclarationSetsNothing(node, md) == md

\* The ExportDefaultDeclaration visitor.
ExportDefaultDeclaration(node, md) == Put(md, "hasDefaultExport", Bool(TRUE))

\* The visitor traverse calls on entering a node, if there is one for its type.
Enter(flowCheck, node, md) ==
    CASE Is(node, "ImportDeclaration") -> ImportDeclaration(node, md)
      [] Is(node, "CallExpression") -> CallExpression(node, md)
      [] Is(node, "FunctionDeclaration") -> FunctionDeclaration(flowCheck, node, md)
      [] Is(node, "VariableDeclarator") -> VariableDeclarator(flowCheck, node, md)
      [] Is(node, "ClassDeclaration") -> ClassDeclaration(flowCheck, node, md)
      [] Is(node, "ExportNamedDeclaration") -> ExportNamedDeclaration(node, md)
      [] Is(node, "ExportDefaultDeclaration") -> ExportDefaultDeclaration(node, md)
      [] OTHER -> md

RECURSIVE Traverse(_, _, _)
RECURSIVE TraverseAll(_, _, _)
\* traverse: depth first, the visitor of a node before its children.
Traverse(flowCheck, node, md) ==
    IF HasThrown(md) \/ IsNil(node) THEN md
    ELSE LET entered == Enter(flowCheck, node, md)
         IN IF HasThrown(entered) THEN entered
            ELSE TraverseAll(flowCheck, Kids(node), entered)

TraverseAll(flowCheck, nodes, md) ==
    IF Len(nodes) = 0 \/ HasThrown(md) THEN md
    ELSE TraverseAll(flowCheck, Tail(nodes), Traverse(flowCheck, Head(nodes), md))

\* File content: the source text, as what @babel/parser makes of it: a syntax
\* tree, or a syntax error.
Source(syntax, ast) == [syntax |-> syntax, ast |-> ast]
BadSource == [syntax |-> "invalid", ast |-> Nil]

\* parser.parse(content, { plugins }): TypeScript syntax parses only with the
\* typescript plugin; the result is the tree, or Nil for a syntax error.
parser_parse(fileContent, isTS) ==
    IF fileContent.syntax = "invalid" THEN Nil
    ELSE IF fileContent.syntax = "ts" /\ ~isTS THEN Nil
    ELSE fileContent.ast

\* err.loc of the parser's SyntaxError: that there is a position is modelled,
\* not which one.  A TypeError raised in a visitor has no loc.
SyntaxErrorLoc == Obj(<< <<"line", Num(1)>>, <<"column", Num(0)>> >>)

\* throw new ParseError(message, filePath, err.loc || null) (line 178): val
\* holds the fields of the error.
ThrewParseError(filePath, position) ==
    [threw |-> "ParseError",
     val |-> Obj(<< <<"path", Str(filePath)>>, <<"position", position>> >>)]

\* parseFile(content, filePath)
parseFile(flowCheck, fileContent, filePath) ==
    LET isTS == EndsWith(filePath, ".ts") \/ EndsWith(filePath, ".tsx")
        ast == parser_parse(fileContent, isTS)
    IN IF IsNil(ast) THEN ThrewParseError(filePath, SyntaxErrorLoc)
       ELSE LET metadata == Obj(<< <<"symbols", Arr(<<>>)>>,
                                   <<"dependencies", Arr(<<>>)>> >>)
                result == Traverse(flowCheck, ast, metadata)
            IN IF HasThrown(result) THEN ThrewParseError(filePath, Null)
               ELSE Returned(result)


-----------------------------------------------------------------------------
(* Source files: the statements they are made of, as @babel/parser parses  *)
(* them.                                                                   *)

\* export function add(a, b) { return a + b; }
StmtAdd ==
    exportNamedDeclaration(
        functionDeclaration(identifier("add"), <<identifier("a"), identifier("b")>>,
            Nil, <<returnStatement(binaryExpression(identifier("a"), identifier("b")))>>,
            Span(1, 7, 44)),
        <<>>, Nil)

\* const x = require('path');
StmtRequire ==
    variableDeclaration(<<
        variableDeclarator(identifier("x"),
            callExpression(identifier("require"), <<stringLiteral("path")>>),
            Span(2, 6, 25))>>)

\* class Dog extends Animal { static count = 0; bark() {} }
StmtDog ==
    classDeclaration(identifier("Dog"), identifier("Animal"),
        <<classProperty(identifier("count"), TRUE, Nil, numericLiteral(0),
                        Span(3, 27, 44)),
          classMethod(identifier("bark"), FALSE, "method", <<>>, Nil, <<>>,
                      Span(3, 45, 54))>>,
        Span(3, 0, 56))

\* import fs, { readFile as rf, join } from 'fs';
StmtImport ==
    importDeclaration(<<importDefaultSpecifier("fs"),
                        importSpecifier("rf", "readFile"),
                        importSpecifier("join", "join")>>, "fs")

\* import * as ns from './lib';
StmtImportAll == importDeclaration(<<importNamespaceSpecifier("ns")>>, "./lib")

\* function f(a: string, b: number[] = [], ...r: Array<string | number>): void {}
StmtTyped ==
    functionDeclaration(identifier("f"),
        <<typedIdentifier("a", tsTypeAnnotation(tsKeyword("TSStringKeyword"))),
          assignmentPattern(
              typedIdentifier("b", tsTypeAnnotation(
                  tsArrayType(tsKeyword("TSNumberKeyword")))),
              [type |-> "ArrayExpression"]),
          restElement(identifier("r"), tsTypeAnnotation(
              tsTypeReference("Array", <<tsUnionType(<<
                  tsKeyword("TSStringKeyword"), tsKeyword("TSNumberKeyword")>>)>>)))>>,
        tsTypeAnnotation(tsKeyword("TSVoidKeyword")), <<>>, Span(4, 0, 80))

\* const g = ({ p, q: r, ...o }, [u, , v]) => {};
StmtPatterns ==
    variableDeclaration(<<
        variableDeclarator(identifier("g"),
            arrowFunctionExpression(
                <<objectPattern(<<objectProperty(identifier("p"), identifier("p")),
                                  objectProperty(identifier("q"), identifier("r")),
                                  restElement(identifier("o"), Nil)>>),
                  arrayPattern(<<identifier("u"), Nil, identifier("v")>>)>>,
                Nil, blockStatement(<<>>)),
            Span(5, 6, 46))>>)

\* export { foo, bar as baz };
StmtReexport ==
    exportNamedDeclaration(Nil,
        <<exportSpecifier("foo", "foo", Span(6, 9, 12)),
          exportSpecifier("bar", "baz", Span(6, 14, 24))>>, Nil)

\* export default function main() { const inner = 1; }
StmtDefault ==
    exportDefaultDeclaration(
        functionDeclaration(identifier("main"), <<>>, Nil,
            <<variableDeclaration(<<variableDeclarator(identifier("inner"),
                  numericLiteral(1), Span(7, 39, 48))>>)>>,
            Span(7, 15, 51)))

\* function outer() { function nested() {} }
StmtNested ==
    functionDeclaration(identifier("outer"), <<>>, Nil,
        <<functionDeclaration(identifier("nested"), <<>>, Nil, <<>>, Span(8, 19, 39))>>,
        Span(8, 0, 41))

\* const { m, n } = obj; let y;
StmtDestructure ==
    variableDeclaration(<<
        variableDeclarator(
            objectPattern(<<objectProperty(identifier("m"), identifier("m")),
                            objectProperty(identifier("n"), identifier("n"))>>),
            identifier("obj"), Span(9, 6, 20)),
        variableDeclarator(identifier("y"), Nil, Span(9, 26, 27))>>)

\* class Box { #secret = 1; 'label': string; constructor(private w: number) {}
\*             get [key]() {} }
StmtBox ==
    classDeclaration(identifier("Box"), Nil,
        <<classPrivateProperty("secret", FALSE, numericLiteral(1), Span(10, 12, 24)),
          classProperty(stringLiteral("label"), FALSE,
                        tsTypeAnnotation(tsKeyword("TSStringKeyword")), Nil,
                        Span(10, 25, 41)),
          classMethod(identifier("constructor"), FALSE, "constructor",
                      <<tsParameterProperty(typedIdentifier("w",
                            tsTypeAnnotation(tsKeyword("TSNumberKeyword"))))>>,
                      Nil, <<>>, Span(10, 42, 75)),
          classMethod([type |-> "MemberExpression"], FALSE, "get", <<>>, Nil, <<>>,
                      Span(11, 12, 26))>>,
        Span(10, 0, 28))

\* export * as ns from 'm';
StmtExportAll ==
    exportNamedDeclaration(Nil,
        <<exportNamespaceSpecifier("ns", Span(12, 7, 14))>>, stringLiteral("m"))

\* require('a', 'b'); load('c'); require(name);
StmtCalls ==
    blockStatement(<<
        expressionStatement(callExpression(identifier("require"),
            <<stringLiteral("a"), stringLiteral("b")>>)),
        expressionStatement(callExpression(identifier("load"),
            <<stringLiteral("c")>>)),
        expressionStatement(callExpression(identifier("require"),
            <<identifier("name")>>))>>)

\* const h = function (s = 'x') { return require('os'); };
StmtFunctionExpression ==
    variableDeclaration(<<
        variableDeclarator(identifier("h"),
            functionExpression(
                <<assignmentPattern(identifier("s"), stringLiteral("x"))>>, Nil,
                blockStatement(<<returnStatement(
                    callExpression(identifier("require"), <<stringLiteral("os")>>))>>)),
            Span(13, 6, 52))>>)

\* function t(p: A & B, q: Foo, cb: () => void, n: NS.T): never {}
StmtTypedMore ==
    functionDeclaration(identifier("t"),
        <<typedIdentifier("p", tsTypeAnnotation(tsIntersectionType(<<
              tsTypeReference("A", <<>>), tsTypeReference("B", <<>>)>>))),
          typedIdentifier("q", tsTypeAnnotation(tsTypeReference("Foo", <<>>))),
          typedIdentifier("cb", tsTypeAnnotation(tsFunctionType)),
          typedIdentifier("n", tsTypeAnnotation(tsQualifiedReference("NS", "T")))>>,
        tsTypeAnnotation(tsKeyword("TSNeverKeyword")), <<>>, Span(14, 0, 66))

\* export default class Cat { meow() {} }
StmtDefaultClass ==
    exportDefaultDeclaration(
        classDeclaration(identifier("Cat"), Nil,
            <<classMethod(identifier("meow"), FALSE, "method", <<>>, Nil, <<>>,
                          Span(15, 27, 36))>>,
            Span(15, 15, 38)))

\* export default () => { const z = function () {}; };
StmtDefaultArrow ==
    exportDefaultDeclaration(
        arrowFunctionExpression(<<>>, Nil,
            blockStatement(<<variableDeclaration(<<
                variableDeclarator(identifier("z"),
                    functionExpression(<<>>, Nil, blockStatement(<<>>)),
                    Span(16, 29, 48))>>)>>)))

\* export const lo = 0, hi = 1;
StmtExportConsts ==
    exportNamedDeclaration(
        variableDeclaration(<<
            variableDeclarator(identifier("lo"), numericLiteral(0), Span(17, 13, 19)),
            variableDeclarator(identifier("hi"), numericLiteral(1), Span(17, 21, 27))>>),
        <<>>, Nil)

\* class Safe { #secret = 1; open() {} }
StmtPrivate ==
    classDeclaration(identifier("Safe"), Nil,
        <<classPrivateProperty("secret", FALSE, numericLiteral(1), Span(18, 13, 25)),
          classMethod(identifier("open"), FALSE, "method", <<>>, Nil, <<>>,
                      Span(18, 26, 35))>>,
        Span(18, 0, 37))

\* function pick([a, b = 1, [c], ...d], { k } = {}, ...[e]) {}
StmtPick ==
    functionDeclaration(identifier("pick"),
        <<arrayPattern(<<identifier("a"),
                         assignmentPattern(identifier("b"), numericLiteral(1)),
                         arrayPattern(<<identifier("c")>>),
                         restElement(identifier("d"), Nil)>>),
          assignmentPattern(
              objectPattern(<<objectProperty(identifier("k"), identifier("k"))>>),
              [type |-> "ObjectExpression"]),
          restElement(arrayPattern(<<identifier("e")>>), Nil)>>,
        Nil, <<>>, Span(19, 0, 59))

\* export default function () {}
StmtAnonymous ==
    exportDefaultDeclaration(
        functionDeclaration(Nil, <<>>, Nil, <<>>, Span(22, 15, 29)))

\* class Job { run() { function helper() {} } }
StmtHelper ==
    classDeclaration(identifier("Job"), Nil,
        <<classMethod(identifier("run"), FALSE, "method", <<>>, Nil,
              <<functionDeclaration(identifier("helper"), <<>>, Nil, <<>>,
                                    Span(23, 20, 40))>>,
              Span(23, 12, 42))>>,
        Span(23, 0, 44))

\* { function scoped() {} }
StmtScoped ==
    blockStatement(
        <<functionDeclaration(identifier("scoped"), <<>>, Nil, <<>>,
                              Span(24, 2, 22))>>)

Statements ==
    <<StmtAdd, StmtRequire, StmtDog, StmtImport, StmtImportAll, StmtTyped,
      StmtPatterns, StmtReexport, StmtDefault, StmtNested, StmtDestructure,
      StmtBox, StmtExportAll, StmtCalls, StmtFunctionExpression, StmtTypedMore,
      StmtDefaultClass, StmtDefaultArrow, StmtExportConsts, StmtPrivate,
      StmtPick, StmtAnonymous, StmtHelper, StmtScoped>>

\* The statements written in TypeScript syntax.
TypeScriptStatements == {6, 12, 16}


-----------------------------------------------------------------------------
(* Direct calls of the exported functions: the arguments they are given.   *)

\* A source file of up to MaxStmts statements.
StmtLists == UNION {[1..n -> 1..Len(Statements)] : n \in 0..MaxStmts}
FileOf(q) ==
    Source(IF \E i \in 1..Len(q) : q[i] \in TypeScriptStatements THEN "ts" ELSE "js",
           program([i \in 1..Len(q) |-> Statements[q[i]]]))

\* export function add(<names>) { return a; }
PlainFunction(names) ==
    exportNamedDeclaration(
        functionDeclaration(identifier("add"),
            [i \in 1..Len(names) |-> identifier(names[i])], Nil,
            <<returnStatement(identifier("a"))>>, Span(1, 7, 40)),
        <<>>, Nil)

\* const <name> = require('<source>');
RequireBinding(name, source) ==
    variableDeclaration(<<
        variableDeclarator(identifier(name),
            callExpression(identifier("require"), <<stringLiteral(source)>>),
            Span(2, 6, 25))>>)

ParamNames == {"a", "b", "c"}
ParamLists == UNION {[1..n -> ParamNames] : n \in 0..MaxParams}

\* Files of one statement: a plain exported function, or a require binding.
OneStatementFiles ==
    {Source("js", program(<<PlainFunction(names)>>)) : names \in ParamLists}
    \cup {Source("js", program(<<RequireBinding(name, source)>>)) :
              name \in {"x", "fs"}, source \in {"path", "./lib"}}

\* The paths parseFile is called with.
ParsePaths == {"/proj/src/a.js", "/proj/src/e.ts", "/proj/src/h.tsx"}

ParseInputs ==
    {[fileContent |-> FileOf(q), filePath |-> p] : q \in StmtLists, p \in ParsePaths}
    \cup {[fileContent |-> c, filePath |-> p] : c \in OneStatementFiles, p \in ParsePaths}
    \cup {[fileContent |-> BadSource, filePath |-> "/proj/bad.js"]}

\* The metadata of a parsed file of these statements.
MetadataOf(filePath, q) == parseFile("function", FileOf(q), filePath).val

\* File results: parsed files, and metadata that lacks fields or holds a symbol
\* of a kind the builder does not know.
FileResult(filePath, metadata) ==
    Obj(<< <<"filePath", Str(filePath)>>, <<"metadata", metadata>> >>)
ParsedFile(filePath, q) == FileResult(filePath, MetadataOf(filePath, q))

FileResults ==
    {ParsedFile(f[1], f[2]) :
        f \in {<<"/proj/src/a.js", <<1, 2>> >>,
               <<"/proj/b.ts", <<6, 3, 8>> >>,
               <<"/proj/src/lib/c.ts", <<7, 9, 12>> >>,
               <<"/other/d.js", <<4, 15>> >>}}
    \cup
    {FileResult("/proj/src/e.ts", Obj(<<>>)),
     FileResult("/proj/f.js",
         Obj(<< <<"dependencies",
                  Arr(<<Obj(<< <<"type", Str("require")>>,
                               <<"source", Str("/other/d.js")>> >>)>>)>> >>)),
     FileResult("/proj/lib/g.js",
         Obj(<< <<"symbols",
                  Arr(<<Obj(<< <<"name", Str("T")>>, <<"type", Str("interface")>> >>),
                        Obj(<< <<"name", Str("k")>>, <<"type", Str("fn")>> >>),
                        Obj(<< <<"name", Str("K")>>, <<"type", Str("class")>> >>)>>)>>,
                <<"hasDefaultExport", Bool(TRUE)>> >>))}

RootPaths == {"/proj", "/proj/src"}
Timestamps == {"2025-05-01T10:00:00.000Z", "2025-05-02T11:30:00.000Z"}

ResultLists == UNION {[1..n -> FileResults] : n \in 0..MaxResults}

BuildInputs ==
    {[parsedFiles |-> Arr(q), rootPath |-> r, now |-> "2025-05-01T10:00:00.000Z"] :
        q \in ResultLists, r \in RootPaths}

\* Manifests as buildManifest returns them.
Manifests ==
    {buildManifest(b.parsedFiles, b.rootPath, b.now).val :
        b \in {x \in BuildInputs : Length(x.parsedFiles) > 0}}

\* Values of any shape: strings that repeat, arrays, nested objects, and the
\* field names processObject treats apart.
StrPool == {"a", "b"}
Leaves == {Str(x) : x \in StrPool} \cup {Num(1), Null, Bool(TRUE)}
ArraysOf(S) == {Arr(q) : q \in UNION {[1..n -> S] : n \in 0..MaxItems}}
KeyLists == {<<"name">>, <<"name", "type">>, <<"version">>, <<"rootPath", "name">>}
ObjectsOf(S) ==
    UNION {{Obj([i \in 1..Len(ks) |-> <<ks[i], f[i]>>]) : f \in [1..Len(ks) -> S]} :
              ks \in KeyLists}
Level1 == Leaves \cup ArraysOf(Leaves) \cup ObjectsOf(Leaves)
Level2 ==
    Level1 \cup {Arr(<<e>>) : e \in Level1}
           \cup {Obj(<< <<"symbols", e>> >>) : e \in Level1}
Shapes ==
    {Obj(<< <<"version", Str("a")>>, <<"rootPath", Str("/proj")>>,
            <<"files", x>>, <<"name", y>>, <<"type", Str("b")>> >>) :
        x \in Level2, y \in Leaves}

InternInputs == Shapes \cup UNION {{m, optimizeForLLM(m)} : m \in Manifests}

\* Annotation nodes extractTypeAnnotation can be handed.  Those of the parser:
\* the TSTypeAnnotation that wraps a type.
WrappedTypes ==
    {tsTypeAnnotation(T) :
        T \in {tsKeyword("TSStringKeyword"), tsKeyword("TSNumberKeyword"),
               tsArrayType(tsKeyword("TSNumberKeyword")),
               tsTypeReference("Box", <<>>),
               tsTypeReference("Array", <<tsKeyword("TSStringKeyword")>>),
               tsUnionType(<<tsKeyword("TSStringKeyword"),
                             tsKeyword("TSNullKeyword")>>),
               tsFunctionType}}

\* Annotations of Flow, and nodes of no annotation system.
flowTypeAnnotation(T) == [type |-> "TypeAnnotation", typeAnnotation |-> T]
ForeignAnnotations ==
    {flowTypeAnnotation([type |-> "StringTypeAnnotation"]),
     flowTypeAnnotation([type |-> "NumberTypeAnnotation"]),
     [type |-> "StringTypeAnnotation"],
     [type |-> "Mystery"],
     identifier("x")}

\* Types that lack a field their kind has.
MalformedTypes ==
    {[type |-> "TSUnionType"],
     [type |-> "TSIntersectionType"],
     [type |-> "TSArrayType"],
     [type |-> "TSTypeReference"],
     [type |-> "TSTypeReference", typeName |-> [type |-> "Identifier"]],
     [type |-> "TSTypeReference", typeName |-> identifier("Map"),
      typeParameters |-> [type |-> "TSTypeParameterInstantiation"]],
     tsArrayType([type |-> "TSTypeReference", typeName |-> [type |-> "Identifier"]]),
     tsUnionType(<<[type |-> "TSTypeReference",
                    typeName |-> [type |-> "Identifier"]],
                   tsKeyword("TSStringKeyword")>>),
     tsUnionType(<<tsKeyword("TSStringKeyword"), [type |-> "TSUnionType"]>>)}

\* Malformed annotations: a wrapper of nothing, a type without its wrapper, a
\* wrapper of a wrapper, of a well-formed or of a malformed type.
MalformedAnnotations ==
    {[type |-> "TSTypeAnnotation"], tsTypeAnnotation(Nil),
     tsKeyword("TSStringKeyword"), tsArrayType(tsKeyword("TSNumberKeyword"))}
    \cup {tsTypeAnnotation(a) : a \in WrappedTypes}
    \cup {tsTypeAnnotation(tsTypeAnnotation(T)) : T \in MalformedTypes}

AnnotationInputs ==
    {Nil} \cup WrappedTypes \cup ForeignAnnotations \cup MalformedAnnotations

-----------------------------------------------------------------------------
(* The specification of direct calls: one exported function is called on   *)
(* one argument.                                                           *)

NoValue == [k |-> "none", v |-> 0]
NoResult == [threw |-> "pending", val |-> Undef]
NoConfig == [help |-> FALSE, sourcePath |-> "", llmOptimized |-> FALSE,
             compress |-> FALSE]

MainIdle ==
    /\ pc = "idle"
    /\ config = NoConfig
    /\ filePaths = <<>>
    /\ idx = 0
    /\ content = BadSource
    /\ processedFiles = <<>>
    /\ manifest = NoValue
    /\ finalManifest = NoValue
    /\ outputFile = NoValue
    /\ exitCode = 0
    /\ err = "none"
    /\ reads = <<>>

\* No heap: the call is of a function that is given no manifest.
NoMem == [before |-> <<>>, after |-> <<>>, arg |-> Undef, ret |-> Undef]

\* The heap that holds the manifest m and nothing else, before the call.
MemOf(m) ==
    Then(Load(<<>>, m), LAMBDA loaded :
         [before |-> loaded.heap, after |-> loaded.heap, arg |-> loaded.val,
          ret |-> Undef])

InitCalls ==
    /\ MainIdle
    /\ isFlowTypeAnnotation \in InstalledLibraries
    /\ ret = NoResult
    /\ \/ /\ call = [fn |-> "parseFile", state |-> "pending"]
          /\ arg \in ParseInputs
          /\ mem = NoMem
       \/ /\ call = [fn |-> "buildManifest", state |-> "pending"]
          /\ arg \in BuildInputs
          /\ mem = NoMem
       \/ /\ call = [fn |-> "optimizeForLLM", state |-> "pending"]
          /\ arg \in Manifests
          /\ mem = MemOf(arg)
       \/ /\ call = [fn |-> "optimizeManifest", state |-> "pending"]
          /\ arg \in InternInputs
          /\ mem = MemOf(arg)
       \/ /\ call = [fn |-> "extractTypeAnnotation", state |-> "pending"]
          /\ arg \in AnnotationInputs
          /\ mem = NoMem

Pending(fn) == call = [fn |-> fn, state |-> "pending"]

CallParseFile ==
    /\ Pending("parseFile")
    /\ ret' = parseFile(isFlowTypeAnnotation, arg.fileContent, arg.filePath)
    /\ call' = [call EXCEPT !.state = "done"]
    /\ UNCHANGED <<arg, mem, mainVars, libVars>>

CallBuildManifest ==
    /\ Pending("buildManifest")
    /\ ret' = buildManifest(arg.parsedFiles, arg.rootPath, arg.now)
    /\ call' = [call EXCEPT !.state = "done"]
    /\ UNCHANGED <<arg, mem, mainVars, libVars>>

CallOptimizeForLLM ==
    /\ Pending("optimizeForLLM")
    /\ ret' = Returned(optimizeForLLM(arg))
    /\ mem' = Then(optimizeForLLMOnHeap(mem.before, mem.arg), LAMBDA r :
                   [mem EXCEPT !.after = r.heap, !.ret = r.val])
    /\ call' = [call EXCEPT !.state = "done"]
    /\ UNCHANGED <<arg, mainVars, libVars>>

CallOptimizeManifest ==
    /\ Pending("optimizeManifest")
    /\ ret' = Returned(optimizeManifest(arg))
    /\ mem' = Then(optimizeManifestOnHeap(mem.before, mem.arg), LAMBDA r :
                   [mem EXCEPT !.after = r.heap, !.ret = r.val])
    /\ call' = [call EXCEPT !.state = "done"]
    /\ UNCHANGED <<arg, mainVars, libVars>>

\* extractTypeAnnotation is not exported: the call is one made inside the
\* module.
CallExtractTypeAnnotation ==
    /\ Pending("extractTypeAnnotation")
    /\ ret' = extractTypeAnnotation(isFlowTypeAnnotation, arg)
    /\ call' = [call EXCEPT !.state = "done"]
    /\ UNCHANGED <<arg, mem, mainVars, libVars>>

NextCalls ==
    \/ CallExtractTypeAnnotation
    \/ CallParseFile
    \/ CallBuildManifest
    \/ CallOptimizeForLLM
    \/ CallOptimizeManifest

SpecCalls == InitCalls /\ [][NextCalls]_vars

\* Whether the call of fn has returned (not thrown).
Done(fn) == call = [fn |-> fn, state |-> "done"] /\ ret.threw = "none"


-----------------------------------------------------------------------------
(* index.js: main.  One run of the tool, from the command line to the      *)
(* written manifest or to handleError.                                     *)

\* What parseCliArguments returns for --replay-errors: { replayMode: true },
\* an object with no source path, no help and no optimization flag.
ReplayConfig ==
    [help |-> FALSE, sourcePath |-> "", llmOptimized |-> FALSE, compress |-> FALSE]

\* What parseCliArguments returns: the help flag, the resolved source path
\* ("" when none was given) and the two optimization flags, each option set
\* or not whatever the others are; without --help there is a source path,
\* unless the command line asked for a replay.
Configs ==
    {c \in [help : BOOLEAN, sourcePath : RootPaths \cup {"/missing", ""},
            llmOptimized : BOOLEAN, compress : BOOLEAN] :
        (c.sourcePath = "" /\ ~c.help) => c = ReplayConfig}

\* The source files there may be on disk, and what they may hold.
DiskPaths == {"/proj/src/a.js", "/proj/b.ts", "/proj/src/lib/c.ts", "/proj/bad.js"}
DiskContents ==
    {FileOf(<<1, 2>>), FileOf(<<3, 8>>), FileOf(<<6>>), FileOf(<<2, 13>>), BadSource}

\* Whether the path is under the directory.
Under(dir, p) == CommonPrefixLen(Split(dir), Split(p)) = Len(Split(dir))

\* What the glob of findSourceFiles may return: the files found under the
\* directory, each once, in the order of the listing.
FileLists(sourcePath) ==
    {q \in UNION {[1..n -> {p \in DiskPaths : Under(sourcePath, p)}] :
                     n \in 0..MaxFiles} :
        \A i, j \in 1..Len(q) : q[i] = q[j] => i = j}

Init ==
    /\ pc = "start"
    /\ config = NoConfig
    /\ filePaths = <<>>
    /\ idx = 0
    /\ content = BadSource
    /\ processedFiles = <<>>
    /\ manifest = NoValue
    /\ finalManifest = NoValue
    /\ outputFile = NoValue
    /\ exitCode = 0
    /\ err = "none"
    /\ reads = <<>>
    /\ arg = NoValue
    /\ ret = NoResult
    /\ call = [fn |-> "main", state |-> "pending"]
    /\ mem = NoMem
    /\ isFlowTypeAnnotation \in InstalledLibraries

\* catch (err) { handleError(err) }: the run ends with exit code 1.
handleError(e) ==
    /\ pc' = "failed"
    /\ err' = e
    /\ exitCode' = 1

\* const config = parseCliArguments(); if (config.help) { printUsage(); return }
ParseCliArguments ==
    /\ pc = "start"
    /\ \/ /\ \E c \in Configs :
                /\ config' = c
                /\ pc' = IF c.help THEN "done" ELSE "find"
          /\ UNCHANGED <<err, exitCode>>
       \/ handleError("UserInputError") /\ UNCHANGED config
    /\ UNCHANGED <<filePaths, idx, content, processedFiles, manifest,
                   finalManifest, outputFile, reads, callVars, libVars>>

\* const filePaths = await findSourceFiles(config.sourcePath): a directory
\* that is not there, and no path at all (path.resolve(undefined) throws
\* inside the try), both end in a FileSystemError.
FindSourceFiles ==
    /\ pc = "find"
    /\ IF config.sourcePath \in {"/missing", ""}
       THEN handleError("FileSystemError") /\ UNCHANGED <<filePaths, idx>>
       ELSE /\ filePaths' \in FileLists(config.sourcePath)
            /\ idx' = 1
            /\ pc' = "loop"
            /\ UNCHANGED <<err, exitCode>>
    /\ UNCHANGED <<config, content, processedFiles, manifest, finalManifest,
                   outputFile, reads, callVars, libVars>>

\* for (const filePath of filePaths): the read of the next file begins.
BeginRead ==
    /\ pc = "loop"
    /\ idx <= Len(filePaths)
    /\ reads' = Append(reads, filePaths[idx])
    /\ pc' = "reading"
    /\ UNCHANGED <<config, filePaths, idx, content, processedFiles, manifest,
                   finalManifest, outputFile, exitCode, err, callVars, libVars>>

\* const content = await readFile(filePath)
ReadFile ==
    /\ pc = "reading"
    /\ \/ /\ content' \in DiskContents
          /\ pc' = "parse"
          /\ UNCHANGED <<err, exitCode>>
       \/ handleError("FileSystemError") /\ UNCHANGED content
    /\ UNCHANGED <<config, filePaths, idx, processedFiles, manifest,
                   finalManifest, outputFile, reads, callVars, libVars>>

\* A loop that skips a file that does not parse and goes on to the next.
ParseFileSkipsBadFiles ==
    /\ pc = "parse"
    /\ LET result == parseFile(isFlowTypeAnnotation, content, filePaths[idx])
       IN /\ processedFiles' =
                IF result.threw # "none" THEN processedFiles
                ELSE Append(processedFiles, FileResult(filePaths[idx], result.val))
          /\ idx' = idx + 1
          /\ pc' = "loop"
          /\ UNCHANGED <<err, exitCode>>
    /\ UNCHANGED <<config, filePaths, content, manifest, finalManifest,
                   outputFile, reads, callVars, libVars>>

\* const metadata = parseFile(content, filePath); processedFiles.push(...)
ParseFile ==
    /\ pc = "parse"
    /\ LET result == parseFile(isFlowTypeAnnotation, content, filePaths[idx])
       IN IF result.threw # "none"
          THEN handleError(result.threw) /\ UNCHANGED <<processedFiles, idx>>
          ELSE /\ processedFiles' =
                     Append(processedFiles, FileResult(filePaths[idx], result.val))
               /\ idx' = idx + 1
               /\ pc' = "loop"
               /\ UNCHANGED <<err, exitCode>>
    /\ UNCHANGED <<config, filePaths, content, manifest, finalManifest,
                   outputFile, reads, callVars, libVars>>

\* A run that builds the manifest of the files extracted so far whenever it is
\* between two files.
BuildManifestBetweenFiles ==
    /\ pc = "loop"
    /\ \E now \in Timestamps :
          LET result == buildManifest(Arr(processedFiles), config.sourcePath, now)
          IN IF result.threw # "none"
             THEN handleError(result.threw) /\ UNCHANGED <<manifest, finalManifest>>
             ELSE /\ manifest' = result.val
                  /\ finalManifest' = result.val
                  /\ pc' = "llm"
                  /\ UNCHANGED <<err, exitCode>>
    /\ UNCHANGED <<config, filePaths, idx, content, processedFiles, outputFile,
                   reads, callVars, libVars>>

\* const manifest = buildManifest(processedFiles, config.sourcePath)
BuildManifest ==
    /\ pc = "loop"
    /\ idx > Len(filePaths)
    /\ \E now \in Timestamps :
          LET result == buildManifest(Arr(processedFiles), config.sourcePath, now)
          IN IF result.threw # "none"
             THEN handleError(result.threw) /\ UNCHANGED <<manifest, finalManifest>>
             ELSE /\ manifest' = result.val
                  /\ finalManifest' = result.val
                  /\ pc' = "llm"
                  /\ UNCHANGED <<err, exitCode>>
    /\ UNCHANGED <<config, filePaths, idx, content, processedFiles, outputFile,
                   reads, callVars, libVars>>

\* if (config.llmOptimized) finalManifest = optimizeForLLM(finalManifest)
OptimizeForLLM ==
    /\ pc = "llm"
    /\ finalManifest' = IF config.llmOptimized THEN optimizeForLLM(finalManifest)
                        ELSE finalManifest
    /\ pc' = "compress"
    /\ UNCHANGED <<config, filePaths, idx, content, processedFiles, manifest,
                   outputFile, exitCode, err, reads, callVars, libVars>>

\* if (config.compress) finalManifest = optimizeManifest(finalManifest)
OptimizeManifest ==
    /\ pc = "compress"
    /\ finalManifest' = IF config.compress THEN optimizeManifest(finalManifest)
                        ELSE finalManifest
    /\ pc' = "write"
    /\ UNCHANGED <<config, filePaths, idx, content, processedFiles, manifest,
                   outputFile, exitCode, err, reads, callVars, libVars>>

\* await writeManifest(finalManifest, config.outputPath, config.compress)
WriteManifest ==
    /\ pc = "write"
    /\ \/ /\ outputFile' = finalManifest
          /\ pc' = "done"
          /\ UNCHANGED <<err, exitCode>>
       \/ handleError("FileSystemError") /\ UNCHANGED outputFile
    /\ UNCHANGED <<config, filePaths, idx, content, processedFiles, manifest,
                   finalManifest, reads, callVars, libVars>>

Next ==
    \/ ParseCliArguments
    \/ FindSourceFiles
    \/ BeginRead
    \/ ReadFile
    \/ ParseFile
    \/ BuildManifest
    \/ OptimizeForLLM
    \/ OptimizeManifest
    \/ WriteManifest

Spec == Init /\ [][Next]_vars

-----------------------------------------------------------------------------
(* Claims about buildManifest.                                             *)

\* The length of a file result's symbols or dependencies, 0 when absent.
InputLength(fileData, field) ==
    LET x == Get(Get(fileData, "metadata"), field)
    IN IF IsArr(x) THEN Length(x) ELSE 0

RECURSIVE SumLengths(_, _)
SumLengths(fileResults, field) ==
    IF Len(fileResults) = 0 THEN 0
    ELSE InputLength(Head(fileResults), field)
         + SumLengths(Tail(fileResults), field)

BuildReturned == call = [fn |-> "buildManifest", state |-> "done"]

\* C1: for every non-empty sequence of file results, the manifest buildManifest
\* returns has stats.totalSymbols equal to the sum of the lengths of the files'
\* symbols and stats.totalDependencies equal to the sum of the lengths of the
\* files' dependencies, an absent list counting as empty; the same sums are those
\* of the lists of the manifest's own files.
C1_TotalsAreSums ==
    (BuildReturned /\ Length(arg.parsedFiles) > 0) =>
        /\ ret.threw = "none"
        /\ LET stats == Get(ret.val, "stats")
               files == Get(ret.val, "files").v
           IN /\ Get(stats, "totalSymbols")
                    = Num(SumLengths(arg.parsedFiles.v, "symbols"))
              /\ Get(stats, "totalDependencies")
                    = Num(SumLengths(arg.parsedFiles.v, "dependencies"))
              /\ \A i \in 1..Len(files) :
                    /\ Length(Get(files[i], "symbols"))
                          = InputLength(arg.parsedFiles.v[i], "symbols")
                    /\ Length(Get(files[i], "dependencies"))
                          = InputLength(arg.parsedFiles.v[i], "dependencies")

\* C1's case: two files, one of them without a symbols list, the other with
\* several symbols, and dependencies in both.
C1_Witness ==
    /\ BuildReturned
    /\ Length(arg.parsedFiles) = 2
    /\ ~Has(Get(arg.parsedFiles.v[1], "metadata"), "symbols")
    /\ InputLength(arg.parsedFiles.v[1], "dependencies") = 1
    /\ InputLength(arg.parsedFiles.v[2], "symbols") >= 2
    /\ InputLength(arg.parsedFiles.v[2], "dependencies") >= 1
    /\ ret.threw = "none"
    /\ Get(Get(ret.val, "stats"), "totalDependencies").v >= 2

\* C7: buildManifest given an empty sequence of file results throws a
\* UserInputError and returns no manifest; given a non-empty sequence it does
\* not throw that error.
C7_EmptyInputRejected ==
    BuildReturned =>
        /\ (Length(arg.parsedFiles) = 0) <=> (ret.threw = "UserInputError")
        /\ ret.threw = "UserInputError" => ret.val = Undef
        /\ Length(arg.parsedFiles) > 0 => IsObj(ret.val)

\* C7's case: the call on the empty sequence has thrown.
C7_Witness ==
    /\ BuildReturned
    /\ Length(arg.parsedFiles) = 0
    /\ ret.threw = "UserInputError"


-----------------------------------------------------------------------------
(* Claims about optimizeManifest (string interning).                       *)

InternReturned == Done("optimizeManifest")

\* Whether x is a reference object { $ref: i }.
IsRef(x) == IsObj(x) /\ Len(x.v) = 1 /\ x.v[1][1] = "$ref" /\ x.v[1][2].k = "num"
RefIndex(x) == x.v[1][2].v

\* The object without one of its fields.
Without(o, key) == Obj(SelectSeq(o.v, LAMBDA e : e[1] # key))

\* The string table of the result, and the result without it.
TableOf(out) == Get(out, "stringTable").v
BodyOf(out) == Without(out, "stringTable")

RECURSIVE Decode(_, _)
\* x with every { $ref: i } replaced by table[i].
Decode(x, table) ==
    IF IsRef(x)
    THEN IF RefIndex(x) \in 0..(Len(table) - 1) THEN table[RefIndex(x) + 1] ELSE Undef
    ELSE IF IsArr(x) THEN Arr([i \in 1..Len(x.v) |-> Decode(x.v[i], table)])
    ELSE IF IsObj(x)
    THEN Obj([i \in 1..Len(x.v) |-> <<x.v[i][1], Decode(x.v[i][2], table)>>])
    ELSE x

\* C2: interning is lossless: the result of optimizeManifest without its
\* stringTable field, with every { $ref: i } replaced by stringTable[i], is the
\* manifest it was given; the top-level version, generated and rootPath are
\* the values of the argument.  (The manifests have no field named $ref or
\* stringTable of their own.)
C2_InterningIsLossless ==
    InternReturned =>
        /\ Decode(BodyOf(ret.val), TableOf(ret.val)) = arg
        /\ \A key \in {"version", "generated", "rootPath"} :
              Get(ret.val, key) = Get(arg, key)

RECURSIVE HasStringElement(_)
\* Whether some array in x has a string among its elements.
HasStringElement(x) ==
    IF IsArr(x)
    THEN \E i \in 1..Len(x.v) : IsStr(x.v[i]) \/ HasStringElement(x.v[i])
    ELSE IF IsObj(x) THEN \E i \in 1..Len(x.v) : HasStringElement(x.v[i][2])
    ELSE FALSE

\* C2's case: a manifest with strings under fields and in an array, whose
\* result holds references and a table of several strings.
C2_Witness ==
    /\ InternReturned
    /\ Len(TableOf(ret.val)) >= 2
    /\ BodyOf(ret.val) # arg
    /\ HasStringElement(arg)
    /\ IsStr(Get(arg, "version"))

RECURSIVE Occurrences(_, _)
RECURSIVE OccurrencesIn(_, _)
\* The interned occurrences, in the order of the walk: <<string, index>> for
\* every place where the argument x holds a string and the result y a reference.
Occurrences(x, y) ==
    IF IsStr(x) /\ IsRef(y) THEN << <<x.v, RefIndex(y)>> >>
    ELSE IF IsArr(x) /\ IsArr(y) /\ Len(x.v) = Len(y.v)
    THEN OccurrencesIn([i \in 1..Len(x.v) |-> <<x.v[i], y.v[i]>>], 1)
    ELSE IF IsObj(x) /\ IsObj(y) /\ Len(x.v) = Len(y.v)
    THEN OccurrencesIn([i \in 1..Len(x.v) |-> <<x.v[i][2], y.v[i][2]>>], 1)
    ELSE <<>>

OccurrencesIn(pairs, i) ==
    IF i > Len(pairs) THEN <<>>
    ELSE Occurrences(pairs[i][1], pairs[i][2]) \o OccurrencesIn(pairs, i + 1)

\* C3: interning deduplicates: the stringTable of the result has no two equal
\* entries, and any two interned occurrences of equal strings carry the same
\* $ref index.
C3_InterningDeduplicates ==
    InternReturned =>
        LET table == TableOf(ret.val)
            occ == Occurrences(arg, BodyOf(ret.val))
        IN /\ \A i, j \in 1..Len(table) : table[i] = table[j] => i = j
           /\ \A i, j \in 1..Len(occ) : occ[i][1] = occ[j][1] => occ[i][2] = occ[j][2]

\* C3's case: one string interned at two places, and another string beside it.
C3_Witness ==
    /\ InternReturned
    /\ LET occ == Occurrences(arg, BodyOf(ret.val))
       IN /\ \E i, j \in 1..Len(occ) : i # j /\ occ[i][1] = occ[j][1]
          /\ \E i, j \in 1..Len(occ) : occ[i][1] # occ[j][1]

RECURSIVE InternedAt(_, _, _, _)
\* Whether y is x with every string replaced by a reference to it in the table,
\* except, at the top level, the strings of version, generated and rootPath.
InternedAt(x, y, table, top) ==
    IF IsStr(x)
    THEN /\ IsRef(y)
         /\ RefIndex(y) \in 0..(Len(table) - 1)
         /\ table[RefIndex(y) + 1] = x
    ELSE IF IsArr(x)
    THEN /\ IsArr(y)
         /\ Len(y.v) = Len(x.v)
         /\ \A i \in 1..Len(x.v) : InternedAt(x.v[i], y.v[i], table, FALSE)
    ELSE IF IsObj(x)
    THEN /\ IsObj(y)
         /\ Len(y.v) = Len(x.v)
         /\ \A i \in 1..Len(x.v) :
               /\ y.v[i][1] = x.v[i][1]
               /\ IF top /\ IsVerbatimKey(x.v[i][1]) /\ IsStr(x.v[i][2])
                  THEN y.v[i][2] = x.v[i][2]
                  ELSE InternedAt(x.v[i][2], y.v[i][2], table, FALSE)
    ELSE y = x

\* C4: optimizeManifest replaces every string of the manifest by a reference
\* { $ref: i } with stringTable[i] that string, at any depth, under a field or
\* in an array; only the top-level version, generated and rootPath stay as
\* they are.
C4_EveryStringInterned ==
    InternReturned => InternedAt(arg, BodyOf(ret.val), TableOf(ret.val), TRUE)


-----------------------------------------------------------------------------
(* Claims about optimizeForLLM.                                            *)

SimplifyReturned == Done("optimizeForLLM")

\* The symbols of all files of a manifest, and all parameters of its function
\* symbols and class methods.
RECURSIVE Flatten(_)
Flatten(qq) == IF qq = <<>> THEN <<>> ELSE Head(qq) \o Flatten(Tail(qq))
ListOf(o, key) == IF IsArr(Get(o, key)) THEN Get(o, key).v ELSE <<>>
SymbolsOf(m) == Flatten([i \in 1..Len(ListOf(m, "files")) |->
                            ListOf(ListOf(m, "files")[i], "symbols")])
ParamsOf(m) ==
    LET syms == SymbolsOf(m)
        methods == Flatten([i \in 1..Len(syms) |-> ListOf(syms[i], "methods")])
    IN Flatten([i \in 1..Len(syms) |-> ListOf(syms[i], "params")])
       \o Flatten([i \in 1..Len(methods) |-> ListOf(methods[i], "params")])
Range(q) == {q[i] : i \in 1..Len(q)}

\* C5: LLM simplification is idempotent on its output: simplifying the result
\* of optimizeForLLM again gives that same result, for function, class,
\* constant and export symbols and for simple, defaulted, object-pattern,
\* array-pattern, rest and unknown parameters.
C5_SimplifyIdempotent ==
    SimplifyReturned => optimizeForLLM(ret.val) = ret.val

\* C5's case: the simplified manifest had symbols of the four kinds, a class
\* with methods and fields, and parameters of every shape.
C5_Witness ==
    /\ SimplifyReturned
    /\ \A kind \in {"fn", "class", "const", "export"} :
          \E sym \in Range(SymbolsOf(arg)) : IsString(Get(sym, "type"), kind)
    /\ \E sym \in Range(SymbolsOf(arg)) :
          Len(ListOf(sym, "methods")) > 0 /\ Len(ListOf(sym, "fields")) > 0
    /\ \A name \in {"a", "objectPattern", "arrayPattern", "...r", "unknown"} :
          \E param \in Range(ParamsOf(arg)) : IsString(Get(param, "name"), name)
    /\ \E param \in Range(ParamsOf(arg)) : Truthy(Get(param, "hasDefault"))
    /\ ret.val # arg

RECURSIVE Carried(_, _)
\* Whether y carries everything x holds except location spans.
Carried(x, y) ==
    IF IsArr(x)
    THEN /\ IsArr(y)
         /\ Len(y.v) = Len(x.v)
         /\ \A i \in 1..Len(x.v) : Carried(x.v[i], y.v[i])
    ELSE IF IsObj(x)
    THEN /\ IsObj(y)
         /\ \A key \in KeySet(x) \ {"loc"} :
               Get(x, key) # Undef => Has(y, key) /\ Carried(Get(x, key), Get(y, key))
    ELSE y = x

RECURSIVE HasLoc(_)
\* Whether a location span is held anywhere in x.
HasLoc(x) ==
    IF IsArr(x) THEN \E i \in 1..Len(x.v) : HasLoc(x.v[i])
    ELSE IF IsObj(x)
    THEN \E i \in 1..Len(x.v) : x.v[i][1] = "loc" \/ HasLoc(x.v[i][2])
    ELSE FALSE

RECURSIVE StringsIn(_)
\* The strings held anywhere in x.
StringsIn(x) ==
    IF IsStr(x) THEN {x.v}
    ELSE IF IsArr(x) THEN UNION {StringsIn(x.v[i]) : i \in 1..Len(x.v)}
    ELSE IF IsObj(x) THEN UNION {StringsIn(x.v[i][2]) : i \in 1..Len(x.v)}
    ELSE {}

AbsolutePaths == {AbsPath(segs) : segs \in PathSegs}

\* Whether output is input without the top-level fields `dropped`, the per-file
\* filename and every location span, everything else carried.
DropsExactly(input, output, dropped) ==
    /\ KeySet(output) = KeySet(input) \ dropped
    /\ \A key \in KeySet(output) \ {"files"} : Get(output, key) = Get(input, key)
    /\ Length(Get(output, "files")) = Length(Get(input, "files"))
    /\ \A i \in 1..Length(Get(input, "files")) :
          LET file == Get(input, "files").v[i]
              out == Get(output, "files").v[i]
          IN /\ KeySet(out) = KeySet(file) \ {"filename"}
             /\ \A key \in KeySet(out) \ {"symbols"} : Get(out, key) = Get(file, key)
             /\ Carried(Get(file, "symbols"), Get(out, "symbols"))
    /\ ~HasLoc(output)

\* C6 as stated: optimizeForLLM drops exactly the per-file filename, the
\* stats, the generated timestamp and every location span; every other field,
\* top-level and per-file, is carried, and no absolute path appears.
C6_DropsOnlyTheListed ==
    SimplifyReturned =>
        /\ DropsExactly(arg, ret.val, {"stats", "generated"})
        /\ StringsIn(ret.val) \cap AbsolutePaths = {}

\* The strings of the symbols and dependencies of the files of manifest m.
SymbolAndDependencyStrings(m) ==
    UNION {StringsIn(Get(file, "symbols")) \cup StringsIn(Get(file, "dependencies")) :
              file \in Range(Get(m, "files").v)}

\* C6: optimizeForLLM drops the per-file filename, the stats, the generated
\* timestamp, every location span (of symbols, class fields and methods) and
\* also the top-level rootPath; every other field, top-level and per-file, is
\* carried: each file's path as it was, relative in a built manifest, and its
\* dependencies unchanged. The only absolute paths in the output are strings
\* of the input's symbols and dependencies carried as they were, such as the
\* source of an import or require written as an absolute path.
C6_DropsTheListedAndRootPath ==
    SimplifyReturned =>
        /\ DropsExactly(arg, ret.val, {"stats", "generated", "rootPath"})
        /\ \A i \in 1..Length(Get(arg, "files")) :
              LET file == Get(arg, "files").v[i]
                  out == Get(ret.val, "files").v[i]
              IN /\ Get(out, "path") = Get(file, "path")
                 /\ Get(out, "path").v \notin AbsolutePaths
                 /\ Get(out, "dependencies") = Get(file, "dependencies")
        /\ StringsIn(ret.val) \cap AbsolutePaths
              = SymbolAndDependencyStrings(arg) \cap AbsolutePaths

\* C6's case: a manifest with a root path and two files, one with a class whose
\* fields and methods have location spans, the other with a require whose
\* source is written as an absolute path, was simplified: the root path is
\* gone from the output and the require's source is in it.
C6_Witness ==
    /\ SimplifyReturned
    /\ Get(arg, "rootPath") \in {Str(p) : p \in AbsolutePaths}
    /\ Length(Get(arg, "files")) = 2
    /\ Get(arg, "rootPath").v \notin StringsIn(ret.val)
    /\ "/other/d.js" \in StringsIn(Get(Get(ret.val, "files").v[2], "dependencies"))
    /\ StringsIn(ret.val) \cap AbsolutePaths = {"/other/d.js"}
    /\ \E sym \in Range(SymbolsOf(arg)) :
          /\ HasLoc(Get(sym, "fields"))
          /\ HasLoc(Get(sym, "methods"))
    /\ \E sym \in Range(SymbolsOf(arg)) : IsString(Get(sym, "type"), "fn")
    /\ ~Has(ret.val, "rootPath")


-----------------------------------------------------------------------------
(* Claims about parseFile.                                                 *)

ParseReturned == Done("parseFile") /\ ret.threw = "none"

\* The statements of the parsed file, export wrappers taken off.
Unwrapped(stmt) ==
    IF Is(stmt, "ExportNamedDeclaration") /\ ~IsNil(stmt.declaration)
    THEN stmt.declaration ELSE stmt
TopLevel(fileContent) ==
    IF IsNil(fileContent.ast) THEN <<>>
    ELSE [i \in 1..Len(fileContent.ast.body) |-> Unwrapped(fileContent.ast.body[i])]

SymbolsFound == ListOf(ret.val, "symbols")
DependenciesFound == ListOf(ret.val, "dependencies")

\* The types the claim gives a canonical string for.
RECURSIVE IsListedType(_)
IsListedType(T) ==
    \/ T.type \in {"TSStringKeyword", "TSNumberKeyword", "TSBooleanKeyword",
                   "TSVoidKeyword", "TSNullKeyword", "TSUndefinedKeyword",
                   "TSNeverKeyword", "TSUnknownKeyword"}
    \/ T.type = "TSArrayType" /\ IsListedType(T.elementType)
    \/ /\ T.type = "TSTypeReference"
       /\ T.typeName.type = "Identifier"
       /\ IsNil(T.typeParameters)
          \/ \A i \in 1..Len(T.typeParameters.params) :
                IsListedType(T.typeParameters.params[i])
    \/ /\ T.type \in {"TSUnionType", "TSIntersectionType"}
       /\ \A i \in 1..Len(T.types) : IsListedType(T.types[i])

RECURSIVE CanonicalType(_)
\* The canonical string of a listed type.
CanonicalType(T) ==
    CASE T.type = "TSStringKeyword" -> "string"
      [] T.type = "TSNumberKeyword" -> "number"
      [] T.type = "TSBooleanKeyword" -> "boolean"
      [] T.type = "TSVoidKeyword" -> "void"
      [] T.type = "TSNullKeyword" -> "null"
      [] T.type = "TSUndefinedKeyword" -> "undefined"
      [] T.type = "TSNeverKeyword" -> "never"
      [] T.type = "TSUnknownKeyword" -> "unknown"
      [] T.type = "TSArrayType" -> CanonicalType(T.elementType) \o "[]"
      [] T.type = "TSTypeReference" ->
            IF IsNil(T.typeParameters) THEN T.typeName.name
            ELSE T.typeName.name \o "<"
                 \o JoinWith([i \in 1..Len(T.typeParameters.params) |->
                                 CanonicalType(T.typeParameters.params[i])], ", ")
                 \o ">"
      [] T.type = "TSUnionType" ->
            JoinWith([i \in 1..Len(T.types) |-> CanonicalType(T.types[i])], " | ")
      [] T.type = "TSIntersectionType" ->
            JoinWith([i \in 1..Len(T.types) |-> CanonicalType(T.types[i])], " & ")

\* Whether the recorded type is the canonical string of the annotation, for an
\* annotation of a listed type.
Resolved(annotation, recorded) ==
    (~IsNil(annotation) /\ Is(annotation, "TSTypeAnnotation")
        /\ IsListedType(annotation.typeAnnotation))
    => recorded = Str(CanonicalType(annotation.typeAnnotation))

\* The annotation of a parameter: of the identifier, of the defaulted
\* identifier, or of the rest element.
AnnotationOf(param) ==
    IF Is(param, "Identifier") \/ Is(param, "RestElement") THEN param.typeAnnotation
    ELSE IF Is(param, "AssignmentPattern") /\ Is(param.left, "Identifier")
    THEN param.left.typeAnnotation
    ELSE Nil

\* C8: type resolution of a parameter, return or field annotation yields the
\* canonical string of the annotated type: the keyword of a primitive keyword
\* type, the element type's string followed by "[]", Name<Arg1, Arg2, ...> (or
\* just Name), union members joined by " | ", intersection members by " & ".
\* Stated for the functions and classes declared at the top level of a file.
C8_TypesResolveCanonically ==
    ParseReturned =>
        \A i \in 1..Len(TopLevel(arg.fileContent)) :
            LET decl == TopLevel(arg.fileContent)[i]
            IN /\ (Is(decl, "FunctionDeclaration") /\ ~IsNil(decl.id)) =>
                    \A sym \in Range(SymbolsFound) :
                        (IsString(Get(sym, "name"), decl.id.name)
                            /\ IsString(Get(sym, "type"), "fn")) =>
                            /\ Resolved(decl.returnType, Get(sym, "returnType"))
                            /\ \A j \in 1..Len(decl.params) :
                                  Resolved(AnnotationOf(decl.params[j]),
                                           Get(Get(sym, "params").v[j], "type"))
               /\ (Is(decl, "ClassDeclaration") /\ ~IsNil(decl.id)) =>
                    \A sym \in Range(SymbolsFound) :
                        (IsString(Get(sym, "name"), decl.id.name)
                            /\ IsString(Get(sym, "type"), "class")) =>
                            LET props == SelectSeq(decl.body.body,
                                             LAMBDA m : Is(m, "ClassProperty"))
                            IN \A j \in 1..Len(props) :
                                  Resolved(props[j].typeAnnotation,
                                           Get(Get(sym, "fields").v[j], "type"))

\* Whether the file's only declaration is an exported named function
\* declaration with unannotated identifier parameters.
IsPlainExportedFunction(fileContent) ==
    /\ ~IsNil(fileContent.ast)
    /\ Len(fileContent.ast.body) = 1
    /\ LET stmt == fileContent.ast.body[1]
       IN /\ Is(stmt, "ExportNamedDeclaration")
          /\ ~IsNil(stmt.declaration)
          /\ Is(stmt.declaration, "FunctionDeclaration")
          /\ ~IsNil(stmt.declaration.id)
          /\ IsNil(stmt.declaration.returnType)
          /\ \A j \in 1..Len(stmt.declaration.params) :
                /\ Is(stmt.declaration.params[j], "Identifier")
                /\ IsNil(stmt.declaration.params[j].typeAnnotation)
          /\ \A j \in 1..Len(stmt.declaration.body.body) :
                Is(stmt.declaration.body.body[j], "ReturnStatement")

\* Whether the symbols found are the one symbol of the plain exported function,
\* with `kind` as its type.
OneFunctionSymbol(fileContent, kind) ==
    LET fn == fileContent.ast.body[1].declaration
    IN /\ Len(SymbolsFound) = 1
       /\ LET sym == SymbolsFound[1]
          IN /\ Get(sym, "name") = Str(fn.id.name)
             /\ Get(sym, "type") = Str(kind)
             /\ Get(sym, "returnType") = Str("any")
             /\ Get(sym, "params") =
                   Arr([j \in 1..Len(fn.params) |->
                           Obj(<< <<"name", Str(fn.params[j].name)>>,
                                  <<"type", Str("any")>> >>)])

\* C9 as stated: every symbol has type function, class, constant or export,
\* and a file whose only declaration is an exported named function with plain
\* parameters yields exactly one symbol, of type "function".
C9_SymbolTypesAsNamed ==
    ParseReturned =>
        /\ \A sym \in Range(SymbolsFound) :
              Get(sym, "type") \in {Str("function"), Str("class"),
                                    Str("constant"), Str("export")}
        /\ IsPlainExportedFunction(arg.fileContent) =>
              OneFunctionSymbol(arg.fileContent, "function")

\* C9: every symbol emitted by extraction has type "fn", "class", "const" or
\* "export"; a file whose only declaration is an exported named function
\* declaration with unannotated identifier parameters yields exactly one
\* symbol, of type "fn", whose params list the parameters in declaration order
\* each as {name, type: "any"} and whose returnType is "any".
C9_SymbolTypesAsEmitted ==
    ParseReturned =>
        /\ \A sym \in Range(SymbolsFound) :
              Get(sym, "type") \in {Str("fn"), Str("class"), Str("const"), Str("export")}
        /\ IsPlainExportedFunction(arg.fileContent) =>
              OneFunctionSymbol(arg.fileContent, "fn")

\* C9's case: an exported function of two parameters was parsed.
C9_Witness ==
    /\ ParseReturned
    /\ IsPlainExportedFunction(arg.fileContent)
    /\ Len(arg.fileContent.ast.body[1].declaration.params) = 2
    /\ OneFunctionSymbol(arg.fileContent, "fn")

\* Whether the declarator binds an identifier to require('<string>').
IsRequireBinding(declarator) ==
    /\ Is(declarator.id, "Identifier")
    /\ ~IsNil(declarator.init)
    /\ Is(declarator.init, "CallExpression")
    /\ Is(declarator.init.callee, "Identifier")
    /\ declarator.init.callee.name = "require"
    /\ Len(declarator.init.arguments) = 1
    /\ Is(declarator.init.arguments[1], "StringLiteral")

\* The require bindings declared at the top level of the file.
RequireBindings(fileContent) ==
    LET decls == SelectSeq(TopLevel(fileContent),
                           LAMBDA stmt : Is(stmt, "VariableDeclaration"))
    IN SelectSeq(Flatten([i \in 1..Len(decls) |-> decls[i].declarations]),
                 IsRequireBinding)

RequireDependency(source) ==
    Obj(<< <<"type", Str("require")>>, <<"source", Str(source)>> >>)

\* Whether the file is one require binding and nothing else.
IsOneRequireBinding(fileContent) ==
    /\ Len(TopLevel(fileContent)) = 1
    /\ Len(RequireBindings(fileContent)) = 1
    /\ Len(TopLevel(fileContent)[1].declarations) = 1

\* C10 as stated: a binding to require('<string>') yields one require
\* dependency with that source and no symbol for the bound identifier.
C10_RequireBindingHasNoSymbol ==
    ParseReturned =>
        /\ \A declarator \in Range(RequireBindings(arg.fileContent)) :
              /\ RequireDependency(declarator.init.arguments[1].value)
                    \in Range(DependenciesFound)
              /\ \A sym \in Range(SymbolsFound) :
                    Get(sym, "name") # Str(declarator.id.name)
        /\ IsOneRequireBinding(arg.fileContent) =>
              Len(DependenciesFound) = 1 /\ Len(SymbolsFound) = 0

\* C10: a variable binding whose initializer is a call of the identifier
\* require with exactly one string-literal argument yields one require
\* dependency with that source string and also one constant symbol (type
\* "const") for the bound identifier.
C10_RequireBindingIsAConstant ==
    ParseReturned =>
        /\ \A declarator \in Range(RequireBindings(arg.fileContent)) :
              /\ RequireDependency(declarator.init.arguments[1].value)
                    \in Range(DependenciesFound)
              /\ \E sym \in Range(SymbolsFound) :
                    /\ Get(sym, "name") = Str(declarator.id.name)
                    /\ Get(sym, "type") = Str("const")
        /\ IsOneRequireBinding(arg.fileContent) =>
              /\ Len(DependenciesFound) = 1
              /\ Len(SymbolsFound) = 1
              /\ KeySet(SymbolsFound[1]) = {"name", "type", "loc"}

\* C10's case: a file of one require binding was parsed.
C10_Witness ==
    /\ ParseReturned
    /\ IsOneRequireBinding(arg.fileContent)
    /\ DependenciesFound = <<RequireDependency("path")>>
    /\ Get(SymbolsFound[1], "name") = Str("x")

\* The statements of the file that are default export declarations.
DefaultExports(fileContent) ==
    IF IsNil(fileContent.ast) THEN <<>>
    ELSE SelectSeq(fileContent.ast.body,
                   LAMBDA stmt : Is(stmt, "ExportDefaultDeclaration"))

\* The file with `removed(stmt)` in the place of each default export
\* declaration, Nil for none.
WithDefaultExportsAs(fileContent, removed(_)) ==
    Source(fileContent.syntax,
           program([i \in 1..Len(fileContent.ast.body) |->
                       IF Is(fileContent.ast.body[i], "ExportDefaultDeclaration")
                       THEN removed(fileContent.ast.body[i])
                       ELSE fileContent.ast.body[i]]))

NothingFor(stmt) == Nil
DeclarationOf(stmt) == stmt.declaration

\* The symbols parseFile finds in a file.
SymbolsIn(fileContent, filePath) ==
    ListOf(parseFile(isFlowTypeAnnotation, fileContent, filePath).val, "symbols")

\* C11 as stated: a default export declaration sets hasDefaultExport to true
\* and adds nothing to the file's symbols: the symbols are those of the file
\* without its default export declarations.
C11_DefaultExportAddsNoSymbol ==
    (ParseReturned /\ Len(DefaultExports(arg.fileContent)) > 0) =>
        /\ Get(ret.val, "hasDefaultExport") = Bool(TRUE)
        /\ SymbolsFound =
              SymbolsIn(WithDefaultExportsAs(arg.fileContent, NothingFor),
                        arg.filePath)

\* C11: a default export declaration sets hasDefaultExport to true and adds no
\* symbol of its own, but what it exports is traversed like any other
\* statement: the symbols of the file are those of the file with each default
\* export declaration replaced by the declaration or expression it exports (a
\* named function or class, and the functions and bindings inside it, are
\* recorded).  A file without a default export has no hasDefaultExport field.
C11_DefaultExportIsTraversed ==
    ParseReturned =>
        IF Len(DefaultExports(arg.fileContent)) > 0
        THEN /\ Get(ret.val, "hasDefaultExport") = Bool(TRUE)
             /\ SymbolsFound =
                   SymbolsIn(WithDefaultExportsAs(arg.fileContent, DeclarationOf),
                             arg.filePath)
        ELSE ~Has(ret.val, "hasDefaultExport")

\* C11's case: a file with a default-exported named function or class was
\* parsed, and the exported declaration is among the symbols.
C11_Witness ==
    /\ ParseReturned
    /\ \E i \in 1..Len(DefaultExports(arg.fileContent)) :
          LET decl == DefaultExports(arg.fileContent)[i].declaration
          IN /\ Is(decl, "FunctionDeclaration") \/ Is(decl, "ClassDeclaration")
             /\ \E sym \in Range(SymbolsFound) : Get(sym, "name") = Str(decl.id.name)
    /\ Get(ret.val, "hasDefaultExport") = Bool(TRUE)

\* Whether the call of parseFile has ended, with a result or an error.
ParseEnded == call = [fn |-> "parseFile", state |-> "done"]

\* Whether the parser accepts the content under the plugins of the path.
Parses(fileContent, filePath) ==
    ~IsNil(parser_parse(fileContent,
                        EndsWith(filePath, ".ts") \/ EndsWith(filePath, ".tsx")))

\* parseFile on the file of this one statement, in the syntax and under the
\* path of the file parsed.
StatementResult(stmt) ==
    parseFile(isFlowTypeAnnotation, Source(arg.fileContent.syntax, program(<<stmt>>)), arg.filePath)
StatementSymbols(stmt) == ListOf(StatementResult(stmt).val, "symbols")

\* The named export declarations at the top level of the file.
NamedExports(fileContent) ==
    IF IsNil(fileContent.ast) THEN <<>>
    ELSE SelectSeq(fileContent.ast.body,
                   LAMBDA stmt : Is(stmt, "ExportNamedDeclaration"))

\* The name and local name of each specifier, in order.
SpecifierNames(specifiers) ==
    [i \in 1..Len(specifiers) |->
        <<Str(specifiers[i].exported.name),
          IF IsNil(F(specifiers[i], "local")) THEN Undef
          ELSE Str(specifiers[i].local.name)>>]

\* The name and localName of each symbol, in order.
ExportNames(symbols) ==
    [i \in 1..Len(symbols) |-> <<Get(symbols[i], "name"), Get(symbols[i], "localName")>>]

\* C12: a named export declaration that wraps a fresh declaration yields only
\* the symbol of the wrapped declaration, exactly one and no export symbol; one
\* that re-exports bindings yields exactly one export symbol per specifier, in
\* specifier order, with name the exported name and localName the local name.
C12_NamedExports ==
    (ParseEnded /\ Parses(arg.fileContent, arg.filePath)) =>
        \A i \in 1..Len(NamedExports(arg.fileContent)) :
            LET stmt == NamedExports(arg.fileContent)[i]
                found == StatementSymbols(stmt)
            IN /\ StatementResult(stmt).threw = "none"
               /\ IF ~IsNil(stmt.declaration)
                  THEN /\ found = StatementSymbols(stmt.declaration)
                       /\ Len(found) = 1
                  ELSE /\ Len(found) = Len(stmt.specifiers)
                       /\ \A j \in 1..Len(found) : Get(found[j], "type") = Str("export")
                       /\ ExportNames(found) = SpecifierNames(stmt.specifiers)

\* The named class declarations at the top level of the file.
ClassDeclarations(fileContent) ==
    SelectSeq(TopLevel(fileContent),
              LAMBDA stmt : Is(stmt, "ClassDeclaration") /\ ~IsNil(stmt.id))

\* The name, kind and static flag of each method entry, and of each method of
\* the class body.
MethodsRecorded(sym) ==
    LET methods == ListOf(sym, "methods")
    IN [i \in 1..Len(methods) |->
           <<Get(methods[i], "name"), Get(methods[i], "kind"), Get(methods[i], "static")>>]
MethodsDeclared(members) ==
    LET methods == SelectSeq(members, LAMBDA m : Is(m, "ClassMethod"))
    IN [i \in 1..Len(methods) |->
           <<Str(MemberName(methods[i].key)), Str(methods[i].kind),
             Bool(methods[i].static)>>]

\* The static flag of each field entry, and of each member of the class body
\* that is not a method.
FieldsRecorded(sym) ==
    LET fields == ListOf(sym, "fields")
    IN [i \in 1..Len(fields) |-> Get(fields[i], "static")]
FieldsDeclared(members) ==
    LET others == SelectSeq(members, LAMBDA m : ~Is(m, "ClassMethod"))
    IN [i \in 1..Len(others) |-> Bool(others[i].static)]

\* C13: a named class declaration yields one class symbol in which every
\* member of the class body is recorded as a field or as a method: fields plus
\* methods are as many as the body members, each list in body order with the
\* static flag of each member, and extends is the superclass identifier when
\* there is one.
C13_EveryMemberRecorded ==
    ParseReturned =>
        \A i \in 1..Len(ClassDeclarations(arg.fileContent)) :
            LET decl == ClassDeclarations(arg.fileContent)[i]
                members == decl.body.body
                found == SelectSeq(StatementSymbols(decl),
                                   LAMBDA sym : Get(sym, "type") = Str("class"))
            IN /\ Len(found) = 1
               /\ Get(found[1], "name") = Str(decl.id.name)
               /\ Len(ListOf(found[1], "fields")) + Len(ListOf(found[1], "methods"))
                     = Len(members)
               /\ MethodsRecorded(found[1]) = MethodsDeclared(members)
               /\ FieldsRecorded(found[1]) = FieldsDeclared(members)
               /\ IF ~IsNil(decl.superClass) /\ Is(decl.superClass, "Identifier")
                  THEN Get(found[1], "extends") = Str(decl.superClass.name)
                  ELSE ~Has(found[1], "extends")

\* The import declarations of the file, and the import dependencies found.
ImportDeclarations(fileContent) ==
    SelectSeq(TopLevel(fileContent), LAMBDA stmt : Is(stmt, "ImportDeclaration"))
ImportsFound ==
    SelectSeq(DependenciesFound, LAMBDA dep : Get(dep, "type") = Str("import"))

\* The specifier entry the claim describes for an imported binding.
SpecifierExpected(spec) ==
    CASE spec.type = "ImportDefaultSpecifier" ->
            Obj(<< <<"type", Str("default")>>, <<"local", Str(spec.local.name)>> >>)
      [] spec.type = "ImportNamespaceSpecifier" ->
            Obj(<< <<"type", Str("namespace")>>, <<"local", Str(spec.local.name)>> >>)
      [] spec.type = "ImportSpecifier" ->
            Obj(<< <<"type", Str("named")>>,
                   <<"local", Str(spec.local.name)>>,
                   <<"imported", Str(spec.imported.name)>> >>)

\* C14: every static import declaration yields exactly one import dependency
\* carrying the source-module string and one specifier entry per imported
\* binding in order, each classified default, namespace or named with its
\* local name; a named specifier records the imported name, which is the
\* local name when there is no rename.
C14_OneDependencyPerImport ==
    ParseReturned =>
        LET decls == ImportDeclarations(arg.fileContent)
        IN /\ Len(ImportsFound) = Len(decls)
           /\ \A i \in 1..Len(decls) :
                 ImportsFound[i] =
                     Obj(<< <<"type", Str("import")>>,
                            <<"source", Str(decls[i].source.value)>>,
                            <<"specifiers",
                              Arr([j \in 1..Len(decls[i].specifiers) |->
                                      SpecifierExpected(decls[i].specifiers[j])])>> >>)

\* C14's case: import fs, { readFile as rf, join } from 'fs' was parsed: one
\* dependency with a default, a renamed and a plain named specifier.
C14_Witness ==
    /\ ParseReturned
    /\ \E dep \in Range(ImportsFound) :
          /\ Get(dep, "source") = Str("fs")
          /\ Get(dep, "specifiers") =
                Arr(<<Obj(<< <<"type", Str("default")>>, <<"local", Str("fs")>> >>),
                      Obj(<< <<"type", Str("named")>>, <<"local", Str("rf")>>,
                             <<"imported", Str("readFile")>> >>),
                      Obj(<< <<"type", Str("named")>>, <<"local", Str("join")>>,
                             <<"imported", Str("join")>> >>)>>)
    /\ \E dep \in Range(ImportsFound) :
          Get(dep, "specifiers") =
              Arr(<<Obj(<< <<"type", Str("namespace")>>, <<"local", Str("ns")>> >>)>>)

-----------------------------------------------------------------------------
(* Claims about main.                                                      *)

\* What parseFile gives for the file the run is at.
ParseOfCurrent == parseFile(isFlowTypeAnnotation, content, filePaths[idx])

\* The run has ended in handleError with a ParseError.
ParseFailed == pc = "failed" /\ err = "ParseError"

\* After a parse failure: the error carries the path of the file (and a
\* position when the parser gave one) and no metadata; no record of the file
\* was pushed, no later file was read, no manifest was built or written, and
\* the exit code is 1.
AbortedAtCurrent ==
    /\ ParseOfCurrent.threw = "ParseError"
    /\ Get(ParseOfCurrent.val, "path") = Str(filePaths[idx])
    /\ Get(ParseOfCurrent.val, "position") =
          (IF Parses(content, filePaths[idx]) THEN Null ELSE SyntaxErrorLoc)
    /\ ~Has(ParseOfCurrent.val, "symbols")
    /\ ~Has(ParseOfCurrent.val, "dependencies")
    /\ Len(processedFiles) = idx - 1
    /\ reads = SubSeq(filePaths, 1, idx)
    /\ manifest = NoValue
    /\ finalManifest = NoValue
    /\ outputFile = NoValue
    /\ exitCode = 1

\* C15: extraction is all-or-nothing and a parse failure aborts the run: when
\* parsing or traversing a file raises, parseFile throws a ParseError carrying
\* that file's path (and the position when available) and returns no partial
\* metadata; the run then processes no further file, never builds or writes a
\* manifest, and ends with exit code 1.
C15_ParseFailureAbortsRun ==
    /\ [](ParseFailed => AbortedAtCurrent)
    /\ [][/\ (pc = "parse" /\ ParseOfCurrent.threw # "none") =>
                (pc' = "failed" /\ err' = "ParseError" /\ exitCode' = 1)
          /\ pc = "failed" => UNCHANGED vars]_vars

\* C15's case: the first of two files failed in a visitor after a dependency
\* had been found in it; the second file was never read.
C15_Witness ==
    /\ ParseFailed
    /\ Len(filePaths) = 2
    /\ idx = 1
    /\ content = FileOf(<<2, 13>>)
    /\ reads = <<filePaths[1]>>
    /\ exitCode = 1

-----------------------------------------------------------------------------
(* Claims about the paths of a manifest.                                   *)

\* Whether the string rel names the file `to` as seen from the directory
\* `from`: rel is some number of ".." followed by trailing segments of `to`,
\* and going up that many directories from `from` and then down those segments
\* arrives at `to`.
IsRelativeFromTo(rel, from, to) ==
    LET f == Split(from)
        t == Split(to)
    IN \E up \in 0..Len(f), k \in 1..(Len(t) + 1) :
          LET down == SubSeq(t, k, Len(t))
          IN /\ rel = JoinSegs([i \in 1..up |-> ".."] \o down)
             /\ SubSeq(f, 1, Len(f) - up) \o down = t

\* Every file's path is relative and leads from rootPath to the file given.
PathsAreRelative ==
    \A i \in 1..Length(arg.parsedFiles) :
       LET path == Get(Get(ret.val, "files").v[i], "path")
       IN /\ IsStr(path)
          /\ path.v \notin AbsolutePaths
          /\ IsRelativeFromTo(path.v, arg.rootPath,
                              Get(arg.parsedFiles.v[i], "filePath").v)

\* C16 as stated: in every manifest returned by buildManifest every file's path
\* is relative to rootPath and no absolute path appears anywhere in the
\* manifest.
C16_NoAbsolutePathAnywhere ==
    (BuildReturned /\ ret.threw = "none") =>
        /\ PathsAreRelative
        /\ StringsIn(ret.val) \cap AbsolutePaths = {}

\* The strings of the metadata given for the files.
MetadataStrings ==
    UNION {StringsIn(Get(arg.parsedFiles.v[i], "metadata")) :
              i \in 1..Length(arg.parsedFiles)}

\* C16, amended: in every manifest returned by buildManifest every file's path
\* is relative to rootPath and leads from it to the file; the manifest's own
\* rootPath field holds the rootPath argument as given, an absolute path; any
\* other absolute path in the manifest is a string of the files' metadata (the
\* source of an import or require written as an absolute path), carried as it
\* was.
C16_OnlyRootPathIsAbsolute ==
    (BuildReturned /\ ret.threw = "none") =>
        /\ PathsAreRelative
        /\ Get(ret.val, "rootPath") = Str(arg.rootPath)
        /\ (StringsIn(ret.val) \cap AbsolutePaths) \ MetadataStrings
              = {arg.rootPath}

\* C16's case: a manifest of a file below rootPath and a file outside it, whose
\* path goes up.
C16_Witness ==
    /\ BuildReturned
    /\ ret.threw = "none"
    /\ arg.rootPath = "/proj/src"
    /\ Length(arg.parsedFiles) = 2
    /\ Get(Get(ret.val, "files").v[1], "path") = Str("lib/c.ts")
    /\ Get(Get(ret.val, "files").v[2], "path") = Str("../../other/d.js")
    /\ MetadataStrings \cap AbsolutePaths = {}

-----------------------------------------------------------------------------
(* Claims about what the optimizations do to their argument.               *)

OptimizationReturned == Done("optimizeForLLM") \/ Done("optimizeManifest")

\* C17: optimizeForLLM and optimizeManifest never mutate their argument: after
\* either call every object and array that existed before the call holds what
\* it held, so the input manifest, read all the way down (files, symbols,
\* dependencies and stats), is the value it was; and the result is a new
\* object, none of those that existed before the call.
C17_ArgumentNotMutated ==
    OptimizationReturned =>
        /\ Len(mem.after) >= Len(mem.before)
        /\ \A address \in 1..Len(mem.before) :
              mem.after[address] = mem.before[address]
        /\ Read(mem.after, mem.arg) = arg
        /\ IsAt(mem.ret)
        /\ mem.ret.v > Len(mem.before)
        /\ mem.ret # mem.arg
        /\ Read(mem.after, mem.ret) = ret.val

\* C17's case: optimizeForLLM has returned for a manifest of two files with
\* stats, a class with methods and a dependency; a file of the result holds the
\* very dependencies array of the input file, and that array is as it was.
C17_Witness ==
    /\ Done("optimizeForLLM")
    /\ Length(Get(arg, "files")) = 2
    /\ Has(arg, "stats")
    /\ \E sym \in Range(SymbolsOf(arg)) : Len(ListOf(sym, "methods")) > 0
    /\ \E i \in 1..2 :
          LET before == mem.before[Field(mem.before, mem.arg, "files").v].v[i]
              after == mem.after[Field(mem.after, mem.ret, "files").v].v[i]
              dependencies == Field(mem.before, before, "dependencies")
          IN /\ after # before
             /\ Field(mem.after, after, "dependencies") = dependencies
             /\ Len(mem.after[dependencies.v].v) > 0
             /\ mem.after[dependencies.v] = mem.before[dependencies.v]

-----------------------------------------------------------------------------
(* Claims about the counters of a manifest.                                *)

\* The number of symbols of the manifest m, over all its files, whose type is
\* `type`.
SymbolsOfType(m, type) ==
    Cardinality({i \in 1..Len(SymbolsOf(m)) :
                    IsString(Get(SymbolsOf(m)[i], "type"), type)})

RecognizedTypes == {"fn", "class", "const", "export"}

\* C18: in every manifest returned by buildManifest each typeStats counter
\* (functions, classes, constants, exports) equals the number of symbols of
\* that kind (type fn, class, const, export) over all files, and the four
\* counters sum to at most stats.totalSymbols, with equality exactly when every
\* symbol has one of the four recognized kinds.
C18_TypeStatsCountKinds ==
    (BuildReturned /\ ret.threw = "none") =>
        LET stats == Get(ret.val, "stats")
            typeStats == Get(stats, "typeStats")
            functions == Get(typeStats, "functions").v
            classes == Get(typeStats, "classes").v
            constants == Get(typeStats, "constants").v
            exports == Get(typeStats, "exports").v
            total == Get(stats, "totalSymbols").v
            allRecognized ==
                \A sym \in Range(SymbolsOf(ret.val)) :
                   \E type \in RecognizedTypes : IsString(Get(sym, "type"), type)
        IN /\ functions = SymbolsOfType(ret.val, "fn")
           /\ classes = SymbolsOfType(ret.val, "class")
           /\ constants = SymbolsOfType(ret.val, "const")
           /\ exports = SymbolsOfType(ret.val, "export")
           /\ functions + classes + constants + exports <= total
           /\ (functions + classes + constants + exports = total) <=> allRecognized

\* C18's case: a manifest of two files with functions, classes and an export
\* among its symbols and one symbol of no recognized kind, so that the
\* counters sum to one less than totalSymbols.
C18_Witness ==
    /\ BuildReturned
    /\ ret.threw = "none"
    /\ Length(arg.parsedFiles) = 2
    /\ SymbolsOfType(ret.val, "fn") >= 2
    /\ SymbolsOfType(ret.val, "class") >= 2
    /\ SymbolsOfType(ret.val, "export") >= 1
    /\ \E sym \in Range(SymbolsOf(ret.val)) : IsString(Get(sym, "type"), "interface")
    /\ LET typeStats == Get(Get(ret.val, "stats"), "typeStats")
       IN Get(typeStats, "functions").v + Get(typeStats, "classes").v
          + Get(typeStats, "constants").v + Get(typeStats, "exports").v
          = Get(Get(ret.val, "stats"), "totalSymbols").v - 1

-----------------------------------------------------------------------------
(* Claims about the order of a run.                                        *)

\* The files are taken one at a time and in the order of the list: the reads
\* begun are the first files of the list, the records pushed are those of the
\* first files, and at most the last file read has no record yet.
OneFileAtATime ==
    /\ Len(reads) <= Len(filePaths)
    /\ reads = SubSeq(filePaths, 1, Len(reads))
    /\ Len(processedFiles) <= Len(reads)
    /\ Len(reads) <= Len(processedFiles) + 1
    /\ \A k \in 1..Len(processedFiles) :
          Get(processedFiles[k], "filePath") = Str(filePaths[k])

\* The manifest built has one entry for each file of the list, in its order.
ManifestFollowsList ==
    manifest # NoValue =>
        /\ Len(processedFiles) = Len(filePaths)
        /\ Length(Get(manifest, "files")) = Len(filePaths)
        /\ Get(Get(manifest, "stats"), "totalFiles") = Num(Len(filePaths))
        /\ \A k \in 1..Len(filePaths) :
              LET entry == Get(manifest, "files").v[k]
                  metadata == Get(processedFiles[k], "metadata")
              IN /\ Get(entry, "path")
                      = Str(path_relative(config.sourcePath, filePaths[k]))
                 /\ Get(entry, "filename") = Str(path_basename(filePaths[k]))
                 /\ Get(entry, "symbols") = Get(metadata, "symbols")
                 /\ Get(entry, "dependencies") = Get(metadata, "dependencies")

\* C19: files are processed strictly sequentially and in order: for the
\* discovered file list f1..fn the read of f(k+1) does not begin before the
\* extraction of fk has completed, buildManifest is called only after all n
\* files are extracted, and the files sequence of the manifest has length n
\* (= stats.totalFiles) with its k-th entry describing fk.
C19_SequentialInOrder ==
    /\ [](OneFileAtATime /\ ManifestFollowsList)
    /\ [][/\ reads' # reads =>
                /\ Len(processedFiles) = Len(reads)
                /\ reads' = Append(reads, filePaths[Len(reads) + 1])
          /\ manifest' # manifest =>
                /\ Len(processedFiles) = Len(filePaths)
                /\ Len(reads) = Len(filePaths)]_vars

\* C19's case: a run over two files has built its manifest.
C19_Witness ==
    /\ manifest # NoValue
    /\ Len(filePaths) = 2
    /\ reads = filePaths
    /\ Get(Get(manifest, "files").v[1], "filename") = Str(path_basename(filePaths[1]))
    /\ Get(Get(manifest, "files").v[2], "filename") = Str(path_basename(filePaths[2]))
    /\ filePaths[1] = "/proj/src/lib/c.ts"
    /\ filePaths[2] = "/proj/src/a.js"

-----------------------------------------------------------------------------
(* Claims about the classification of parameters.                          *)

\* The functions declared by a top-level statement: a function declaration, or
\* a binding whose initializer is a function; each with its name and its
\* parameter nodes.
FunctionsOf(stmt) ==
    IF Is(stmt, "FunctionDeclaration") /\ ~IsNil(stmt.id)
    THEN {[name |-> stmt.id.name, params |-> stmt.params]}
    ELSE IF Is(stmt, "VariableDeclaration")
    THEN {[name |-> d.id.name, params |-> d.init.params] :
             d \in {x \in Range(stmt.declarations) :
                       /\ Is(x.id, "Identifier")
                       /\ ~IsNil(x.init)
                       /\ x.init.type \in {"ArrowFunctionExpression",
                                           "FunctionExpression"}}}
    ELSE {}

\* The parameter lists of the file with the lists recorded for them: those of
\* the functions at the top level, and those of the methods of the classes
\* there (the methods recorded are the ClassMethod members, in body order).
ParamListsRecorded(fileContent) ==
    LET stmts == Range(TopLevel(fileContent))
        functions ==
            UNION {{<<fn.params, Get(sym, "params")>> :
                       sym \in {x \in Range(SymbolsFound) :
                                   /\ Get(x, "name") = Str(fn.name)
                                   /\ IsString(Get(x, "type"), "fn")}} :
                   fn \in UNION {FunctionsOf(stmt) : stmt \in stmts}}
        classes == {stmt \in stmts : Is(stmt, "ClassDeclaration")}
        methods ==
            UNION {LET declared == SelectSeq(cls.body.body,
                                             LAMBDA m : Is(m, "ClassMethod"))
                       recorded == {x \in Range(SymbolsFound) :
                                       /\ Get(x, "name") = Str(cls.id.name)
                                       /\ IsString(Get(x, "type"), "class")
                                       /\ Len(ListOf(x, "methods")) = Len(declared)}
                   IN {<<declared[j].params,
                         Get(ListOf(sym, "methods")[j], "params")>> :
                          j \in 1..Len(declared), sym \in recorded} :
                   cls \in classes}
    IN functions \cup methods

\* Whether info is the {name, type} entry of a name.
IsNameType(info, name) ==
    /\ IsObj(info)
    /\ Get(info, "name") = Str(name)
    /\ IsStr(Get(info, "type"))

\* The elements of an array pattern that are not holes.
NonHoles(elements) == SelectSeq(elements, LAMBDA element : ~IsNil(element))

\* Whether the entries recorded for an array pattern are its elements in
\* order, holes dropped: one entry for each element that is no hole.
ElementsInOrder(elements, entries) ==
    /\ IsArr(entries)
    /\ Len(entries.v) = Len(NonHoles(elements))
    /\ \A i \in 1..Len(entries.v) :
          /\ IsObj(entries.v[i])
          /\ Is(NonHoles(elements)[i], "Identifier") =>
                IsNameType(entries.v[i], NonHoles(elements)[i].name)

\* Whether the entries recorded for an array pattern are those of its elements
\* that are plain identifiers, in order.
IdentifiersInOrder(elements, entries) ==
    LET identifiers == SelectSeq(elements, LAMBDA element :
                                     ~IsNil(element) /\ Is(element, "Identifier"))
    IN /\ IsArr(entries)
       /\ Len(entries.v) = Len(identifiers)
       /\ \A i \in 1..Len(entries.v) :
             IsNameType(entries.v[i], identifiers[i].name)

\* Whether the entries recorded for an object pattern are one per property, in
\* order: name and type for a property, a placeholder for a rest property.
PropertiesInOrder(properties, entries) ==
    /\ IsArr(entries)
    /\ Len(entries.v) = Len(properties)
    /\ \A i \in 1..Len(properties) :
          IF Is(properties[i], "ObjectProperty")
          THEN /\ IsStr(Get(entries.v[i], "name"))
               /\ IsStr(Get(entries.v[i], "type"))
               /\ Is(properties[i].key, "Identifier") =>
                     Get(entries.v[i], "name") = Str(properties[i].key.name)
          ELSE entries.v[i] = Obj(<< <<"name", Str("rest")>> >>)

\* Whether info is what the classification gives for the parameter node, with
\* InOrder deciding what is recorded for the elements of an array pattern.
Classified(param, info, InOrder(_, _)) ==
    CASE Is(param, "Identifier") ->
            IsNameType(info, param.name) /\ KeySet(info) = {"name", "type"}
      [] Is(param, "AssignmentPattern") ->
            /\ Get(info, "hasDefault") = Bool(TRUE)
            /\ IsStr(Get(info, "name"))
            /\ IsStr(Get(info, "type"))
            /\ Is(param.left, "Identifier") => Get(info, "name") = Str(param.left.name)
            /\ KeySet(info) = {"name", "type", "hasDefault"}
      [] Is(param, "ObjectPattern") ->
            /\ Get(info, "name") = Str("objectPattern")
            /\ PropertiesInOrder(param.properties, Get(info, "properties"))
      [] Is(param, "ArrayPattern") ->
            /\ Get(info, "name") = Str("arrayPattern")
            /\ InOrder(param.elements, Get(info, "elements"))
      [] Is(param, "RestElement") ->
            /\ IsStr(Get(info, "name"))
            /\ Is(param.argument, "Identifier") =>
                  Get(info, "name") = Str("..." \o param.argument.name)
      [] OTHER -> info = Obj(<< <<"name", Str("unknown")>> >>)

\* Whether every parameter list of the file parsed is recorded with one entry
\* per parameter, in order, each classified.
AllClassified(InOrder(_, _)) ==
    \A pair \in ParamListsRecorded(arg.fileContent) :
       /\ IsArr(pair[2])
       /\ Len(pair[2].v) = Len(pair[1])
       /\ \A j \in 1..Len(pair[1]) : Classified(pair[1][j], pair[2].v[j], InOrder)

\* Whether every specifier of the file's export declarations is a plain
\* `local as exported` one (the visitor of exports raises for any other).
ExportsAreNamed(fileContent) ==
    \A stmt \in Range(fileContent.ast.body) :
       Is(stmt, "ExportNamedDeclaration") =>
          \A spec \in Range(stmt.specifiers) : Is(spec, "ExportSpecifier")

\* C20: parameter classification dispatches in the order identifier, defaulted,
\* object pattern, array pattern, rest element, the first match deciding: an
\* identifier gives {name, type}; a defaulted parameter gives name, type and
\* hasDefault = true; an object pattern gives name "objectPattern" with one
\* {name, type} entry per property in order (a rest property becoming a
\* placeholder entry); an array pattern gives name "arrayPattern" with its
\* elements in order and holes dropped, not null-padded; a rest element gives
\* the name prefixed with "..."; any other parameter node gives
\* {name: "unknown"}; and no parameter makes parseFile raise.
C20_ParametersClassified ==
    (ParseEnded /\ Parses(arg.fileContent, arg.filePath)) =>
        /\ ExportsAreNamed(arg.fileContent) => ret.threw = "none"
        /\ ret.threw = "none" => AllClassified(ElementsInOrder)

\* The call of extractTypeAnnotation has ended, with a value or a TypeError.
ResolutionEnded == call = [fn |-> "extractTypeAnnotation", state |-> "done"]

\* The node types the resolution has a rule for (lines 255 and 275-306).
ResolvedNodeTypes ==
    {"TSTypeAnnotation", "TSStringKeyword", "TSNumberKeyword",
     "TSBooleanKeyword", "TSAnyKeyword", "TSVoidKeyword", "TSNullKeyword",
     "TSUndefinedKeyword", "TSNeverKeyword", "TSUnknownKeyword", "TSArrayType",
     "TSTypeReference", "TSUnionType", "TSIntersectionType"}

\* An unrecognized shape: a node of another type, that wraps nothing of these
\* types either.
Unrecognized(node) ==
    /\ ~IsNil(node)
    /\ node.type \notin ResolvedNodeTypes
    /\ LET inner == F(node, "typeAnnotation")
       IN IsNil(inner) \/ inner.type \notin ResolvedNodeTypes

\* C21: type resolution is total: for every input, an absent, null, malformed
\* or Flow annotation node included, extractTypeAnnotation returns a string
\* and never raises; an absent annotation and every unrecognized shape
\* resolve to "any".
C21_ResolutionIsTotal ==
    ResolutionEnded =>
        /\ ret.threw = "none"
        /\ IsStr(ret.val)
        /\ (IsNil(arg) \/ Unrecognized(arg)) => ret.val = Str("any")

RECURSIVE NodesUnder(_)
RECURSIVE NodesUnderAll(_)
\* The nodes of a subtree, the root first.
NodesUnder(node) ==
    IF IsNil(node) THEN <<>> ELSE <<node>> \o NodesUnderAll(Kids(node))
NodesUnderAll(nodes) ==
    IF Len(nodes) = 0 THEN <<>>
    ELSE NodesUnder(Head(nodes)) \o NodesUnderAll(Tail(nodes))

\* The declaration a top-level statement makes: the statement, or what it
\* exports.
TopLevelDeclaration(stmt) ==
    IF /\ Is(stmt, "ExportNamedDeclaration") \/ Is(stmt, "ExportDefaultDeclaration")
       /\ ~IsNil(stmt.declaration)
    THEN stmt.declaration
    ELSE stmt

FunctionDeclarationsIn(nodes) ==
    SelectSeq(nodes, LAMBDA n : Is(n, "FunctionDeclaration"))

\* The function declarations of a file that are inside the body of a function,
\* a method or a block.
NestedFunctionDeclarations(fileContent) ==
    LET body == fileContent.ast.body
    IN UNION {Range(FunctionDeclarationsIn(
                        NodesUnderAll(Kids(TopLevelDeclaration(body[i])))))
                : i \in 1..Len(body)}

\* The function declarations of a file, at any depth.
AllFunctionDeclarations(fileContent) ==
    Range(FunctionDeclarationsIn(NodesUnder(fileContent.ast)))

\* The symbols of the result that were recorded for this node.
SymbolsAt(node) ==
    {i \in 1..Len(ListOf(ret.val, "symbols")) :
        Get(ListOf(ret.val, "symbols")[i], "loc") = extractLocation(node.loc)}

\* C22: only top-level function declarations are recognized as function
\* Symbols: a named function declaration nested inside the body of another
\* function, method or block contributes no Symbol to the file's symbols, and
\* anonymous function declarations are skipped.
C22_OnlyTopLevelFunctions ==
    (ParseEnded /\ ret.threw = "none") =>
        /\ \A fn \in NestedFunctionDeclarations(arg.fileContent) :
              SymbolsAt(fn) = {}
        /\ \A fn \in AllFunctionDeclarations(arg.fileContent) :
              IsNil(fn.id) => SymbolsAt(fn) = {}

====
